---- MODULE Spec2Model ----
(***************************************************************************)
(* Model of the matchmaking engine: StableMatching (src/src/               *)
(* stable_matching.py) and RulesFilter (src/src/rules_filter.py).          *)
(*                                                                         *)
(* Scores are integers 0..MaxScore standing for total_score in [0,1] in    *)
(* units of 1/MaxScore; only their order and equality matter to the code   *)
(* modelled here.  Python dicts are insertion ordered: a dict that the     *)
(* code iterates is modelled as a sequence of <<key, value>> pairs, a dict *)
(* that is only looked up as a function.                                   *)
(***************************************************************************)
EXTENDS Integers, Sequences, FiniteSets, TLC

\* Highest score level (total_score = 1.0).
MaxScore == 2

\* The most targets one requester scores (max_results of the API requests).
MaxTargets == 2

\* How many times find_stable_matches is invoked on one instance in SpecRerun.
MaxRuns == 3

VARIABLES
    \* ---- StableMatching: arguments of the running invocation
    scores,             \* List[MatchScore]
    candidates,         \* Dict[str, Candidate], as a sequence of [id, gender]
    min_score,
    \* ---- StableMatching: position and locals
    pc,                 \* "idle" | "gale_shapley" | "returned" | "validated"
    men_preferences,
    women_preferences,
    men_partner,        \* ordered dict man -> woman
    women_partner,      \* dict woman -> man
    men_next_proposal,
    free_men,
    iteration,
    max_iterations,
    \* ---- StableMatching: results
    stable_matches,     \* list of <<man, woman, score>>
    is_stable,          \* validate_stability's verdict "True" | "False", "none" before it ran
    \* ---- StableMatching: instance fields
    self_matches,
    self_preferences,
    self_reverse_preferences,
    \* ---- history (not program state)
    proposal_log,       \* the proposals made so far, <<man, woman>> each
    runs,               \* invocations started on this instance
    first_call,         \* arguments of the first invocation
    first_result,       \* what the first invocation returned
    first_capped,       \* whether the first invocation stopped at the cap
    \* ---- RulesFilter: instance field
    location_cache,     \* self._location_cache: location -> coordinates
    \* ---- RulesFilter.filter_candidates: arguments, position, locals
    f_candidates,       \* List[Candidate]
    f_requester,
    f_preferences,
    f_pc,               \* "idle" | "loop" | "returned"
    f_index,            \* position of the for loop in f_candidates
    valid_candidates,   \* list of <<candidate, reason>>
    \* ---- RulesFilter: the last is_valid_match call (history)
    f_verdict,          \* what it returned, and what each check and the distance gave
    \* ---- RulesFilter: a second instance run in lockstep on the same pool, with
    \* ---- preferences that differ in nice_to_have and free_text only
    t_preferences,
    t_location_cache,
    t_valid_candidates,
    t_verdict,
    \* ---- MatchingScorer
    weights,            \* self.weights: name -> weight in units of 1/WeightUnit
    scorer_cache,       \* self.rules_filter._location_cache
    weights_outcome,    \* how the last update_weights ended: "none" | "updated" | "ValueError"
    weights_before,     \* self.weights when the last update_weights was entered (history)
    updates,            \* update_weights calls so far (history)
    match_score,        \* the last call if it was calculate_match_score: what it returned
    \* ---- MatchingRanker
    model,              \* self.model: "None" | "unfitted" | "fitted"
    feature_names,      \* self.feature_names
    is_trained,         \* self.is_trained
    training_data,      \* the last call if it was train: what prepare_training_data gave
    predicted,          \* the last call if it was predict_score: arguments, state before, score
    trainings,          \* train calls made on this instance (history)
    \* ---- compatibility functions called on their own
    religious_call,     \* the last calculate_religious_compatibility call
    age_call,           \* the last calculate_age_compatibility call
    batch_scores        \* the last batch_score_candidates call: arguments and result

argVars == <<scores, candidates, min_score>>
gsVars == <<men_preferences, women_preferences, men_partner, women_partner,
            men_next_proposal, free_men, iteration, max_iterations>>
outVars == <<stable_matches, is_stable>>
selfVars == <<self_matches, self_preferences, self_reverse_preferences>>
histVars == <<proposal_log, runs, first_call, first_result, first_capped>>
matchingVars == <<argVars, pc, gsVars, outVars, selfVars, histVars>>
filterVars == <<location_cache, f_candidates, f_requester, f_preferences, f_pc, f_index,
                valid_candidates>>
gateVars == <<f_verdict, t_preferences, t_location_cache, t_valid_candidates, t_verdict>>
scorerVars == <<weights, scorer_cache, weights_outcome, weights_before, updates, match_score>>
rankerVars == <<model, feature_names, is_trained, training_data, predicted, trainings>>
compatVars == <<religious_call, age_call, batch_scores>>
vars == <<matchingVars, filterVars, gateVars, scorerVars, rankerVars, compatVars>>

\* What the operations of one component leave alone.
outsideMatching == <<filterVars, gateVars, scorerVars, rankerVars, compatVars>>
outsideFilter == <<matchingVars, scorerVars, rankerVars, compatVars>>
outsideScorer == <<matchingVars, filterVars, gateVars, rankerVars>>
outsideRanker == <<matchingVars, filterVars, gateVars, scorerVars, compatVars>>

(***************************************************************************)
(* Sequences and ordered dicts                                             *)
(***************************************************************************)
Range(seq) == {seq[i] : i \in 1..Len(seq)}

Contains(seq, x) == \E i \in 1..Len(seq) : seq[i] = x

\* list.index(x): the first position of x (0-based in Python, 1-based here).
IndexOf(seq, x) == CHOOSE i \in 1..Len(seq) : seq[i] = x /\ \A j \in 1..(i-1) : seq[j] # x

RECURSIVE Reverse(_)
Reverse(seq) == IF seq = <<>> THEN <<>> ELSE Append(Reverse(Tail(seq)), Head(seq))

RECURSIVE Concat(_)
Concat(seqs) == IF seqs = <<>> THEN <<>> ELSE Head(seqs) \o Concat(Tail(seqs))

\* All sequences without repetition over the set S (every length 0..|S|).
RECURSIVE NoRepeatLists(_)
NoRepeatLists(S) ==
    {<<>>} \cup UNION {{<<x>> \o l : l \in NoRepeatLists(S \ {x})} : x \in S}

Permutations_(S) == {l \in NoRepeatLists(S) : Len(l) = Cardinality(S)}

DictHas(d, k) == \E i \in 1..Len(d) : d[i][1] = k

DictGet(d, k) == d[CHOOSE i \in 1..Len(d) : d[i][1] = k][2]

\* d[k] = v: an existing key keeps its position, a new key goes last.
DictSet(d, k, v) ==
    IF DictHas(d, k)
    THEN [i \in 1..Len(d) |-> IF d[i][1] = k THEN <<k, v>> ELSE d[i]]
    ELSE Append(d, <<k, v>>)

\* del d[k]
DictDel(d, k) == SelectSeq(d, LAMBDA e : e[1] # k)

(***************************************************************************)
(* Pure functions of StableMatching                                        *)
(***************************************************************************)
MatchScore(a, b, s) == [candidate_a_id |-> a, candidate_b_id |-> b, total_score |-> s]

\* men / women of build_preference_lists: the ids of one gender, in dict order.
IdsOfGender(cands, g) ==
    LET sel == SelectSeq(cands, LAMBDA c : c.gender = g)
    IN  [i \in 1..Len(sel) |-> sel[i].id]

men(cands) == IdsOfGender(cands, "M")
women(cands) == IdsOfGender(cands, "F")

\* sorted(xs, key=..., reverse=True), keys[i] being the key of xs[i]:
\* descending, equal keys keep their order.  The element at position i goes
\* after every element with a larger key and after the earlier elements with
\* an equal key.
SortedDesc(xs, keys) ==
    LET pos(i) == Cardinality({j \in 1..Len(xs) : keys[j] > keys[i]})
                  + Cardinality({j \in 1..(i-1) : keys[j] = keys[i]}) + 1
    IN  [p \in 1..Len(xs) |-> xs[CHOOSE i \in 1..Len(xs) : pos(i) = p]]

total_score_key(x) == x.total_score

\* scores_by_requester[requester_id], the empty list when the key is absent.
scores_by_requester(sc, requester_id) ==
    SelectSeq(sc, LAMBDA x : x.candidate_a_id = requester_id)

\* The inner loop without the test "target_id not in men_preferences[man_id]".
RECURSIVE append_targets_repeating(_, _, _)
append_targets_repeating(prefs, sorted_scores, others) ==
    IF sorted_scores = <<>> THEN prefs
    ELSE LET target_id == Head(sorted_scores).candidate_b_id
         IN  append_targets_repeating(
                 IF target_id \in others THEN Append(prefs, target_id) ELSE prefs,
                 Tail(sorted_scores), others)

\* The inner loop of build_preference_lists: append every target of the other
\* side that is not on the list yet.
RECURSIVE append_targets(_, _, _)
append_targets(prefs, sorted_scores, others) ==
    IF sorted_scores = <<>> THEN prefs
    ELSE LET target_id == Head(sorted_scores).candidate_b_id
         IN  append_targets(
                 IF target_id \in others /\ ~Contains(prefs, target_id)
                 THEN Append(prefs, target_id) ELSE prefs,
                 Tail(sorted_scores), others)

preference_list(sc, id, others) ==
    LET mine == scores_by_requester(sc, id)
    IN  append_targets(<<>>,
                       SortedDesc(mine, [i \in 1..Len(mine) |-> total_score_key(mine[i])]),
                       others)

\* build_preference_lists: (men_preferences, women_preferences).
build_preference_lists(sc, cands) ==
    [men_preferences |->
        [man_id \in Range(men(cands)) |-> preference_list(sc, man_id, Range(women(cands)))],
     women_preferences |->
        [woman_id \in Range(women(cands)) |-> preference_list(sc, woman_id, Range(men(cands)))]]

\* women_ranking[woman] has man as a key.
Knows(wprefs, woman, man) == woman \in DOMAIN wprefs /\ Contains(wprefs[woman], man)

\* women_ranking[woman].get(man, inf), with Infinity standing for float('inf').
Infinity == 1000000

women_ranking(wprefs, woman, man) ==
    IF Contains(wprefs[woman], man) THEN IndexOf(wprefs[woman], man) - 1 ELSE Infinity

\* new_rank < current_rank: the woman takes the new proposer.
new_is_better_swapped(wprefs, woman, man, current_partner) ==
    women_ranking(wprefs, woman, man) > women_ranking(wprefs, woman, current_partner)

new_is_better(wprefs, woman, man, current_partner) ==
    women_ranking(wprefs, woman, man) < women_ranking(wprefs, woman, current_partner)

\* men_partner after a displacement: the new pair is stored, the old one deleted.
displaced_keep_old(mp, man, woman, current_partner) == DictSet(mp, man, woman)

displaced(mp, man, woman, current_partner) ==
    DictDel(DictSet(mp, man, woman), current_partner)

\* men_next_proposal[man] += 1
index_not_advanced(i) == i

advance(i) == i + 1

\* score_lookup.get((a, b), 0.0): the last score of the directed pair wins.
score_lookup(sc, a, b) ==
    LET hits == {i \in 1..Len(sc) : sc[i].candidate_a_id = a /\ sc[i].candidate_b_id = b}
    IN  IF hits = {} THEN 0
        ELSE sc[CHOOSE i \in hits : \A j \in hits : j <= i].total_score

\* The tuple find_stable_matches builds for one match.
match_tuple(filtered_scores, man_id, woman_id) ==
    LET score == score_lookup(filtered_scores, man_id, woman_id)
    IN  <<man_id, woman_id,
          IF score = 0 THEN score_lookup(filtered_scores, woman_id, man_id) ELSE score>>

tuple_score_key(x) == x[3]

\* Lines 191-208 of find_stable_matches.
compile_matches(filtered_scores, matches) ==
    LET tuples == [i \in 1..Len(matches) |->
                      match_tuple(filtered_scores, matches[i][1], matches[i][2])]
    IN  SortedDesc(tuples, [i \in 1..Len(tuples) |-> tuple_score_key(tuples[i])])

\* Line 175 without its condition.
filter_scores_keeping_all(sc, threshold) == sc

filter_scores(sc, threshold) == SelectSeq(sc, LAMBDA x : x.total_score >= threshold)

\* match_dict of validate_stability: both directions of every tuple, later
\* tuples overwriting earlier ones.
RECURSIVE match_dict(_)
match_dict(matches) ==
    IF matches = <<>> THEN <<>>
    ELSE LET last == matches[Len(matches)]
             rest == match_dict(SubSeq(matches, 1, Len(matches) - 1))
         IN  (last[2] :> last[1]) @@ (last[1] :> last[2]) @@ rest

\* score_dict of validate_stability: every score is stored under (a, b) and
\* under (b, a), later scores overwriting earlier ones.
RECURSIVE score_dict(_)
score_dict(sc) ==
    IF sc = <<>> THEN <<>>
    ELSE LET last == sc[Len(sc)]
             rest == score_dict(SubSeq(sc, 1, Len(sc) - 1))
         IN  (<<last.candidate_b_id, last.candidate_a_id>> :> last.total_score)
             @@ (<<last.candidate_a_id, last.candidate_b_id>> :> last.total_score)
             @@ rest

\* dict.get(key, default)
GetOr(d, key, default) == IF key \in DOMAIN d THEN d[key] ELSE default

\* The body of validate_stability's loop for one score: TRUE when it returns False.
instability_at(md, sd, score) ==
    LET person_a == score.candidate_a_id
        person_b == score.candidate_b_id
    IN  /\ person_a \in DOMAIN md
        /\ person_b \in DOMAIN md
        /\ md[person_a] # person_b
        /\ score.total_score > GetOr(sd, <<person_a, md[person_a]>>, 0)
        /\ score.total_score > GetOr(sd, <<person_b, md[person_b]>>, 0)

validate_stability(matches, sc) ==
    LET md == match_dict(matches)
        sd == score_dict(sc)
    IN  ~\E i \in 1..Len(sc) : instability_at(md, sd, sc[i])

(***************************************************************************)
(* StableMatching as a state machine                                       *)
(***************************************************************************)
NoCall == [scores |-> <<>>, candidates |-> <<>>, min_score |-> 0]

InitMatching ==
    /\ scores = <<>>
    /\ candidates = <<>>
    /\ min_score = 0
    /\ pc = "idle"
    /\ men_preferences = <<>>
    /\ women_preferences = <<>>
    /\ men_partner = <<>>
    /\ women_partner = <<>>
    /\ men_next_proposal = <<>>
    /\ free_men = <<>>
    /\ iteration = 0
    /\ max_iterations = 0
    /\ stable_matches = <<>>
    /\ is_stable = "none"
    /\ self_matches = <<>>
    /\ self_preferences = <<>>
    /\ self_reverse_preferences = <<>>
    /\ proposal_log = <<>>
    /\ runs = 0
    /\ first_call = NoCall
    /\ first_result = <<>>
    /\ first_capped = FALSE

\* The loop stopped at the cap with free men left in the queue.
Capped == iteration >= max_iterations /\ free_men # <<>>

\* History of the first invocation, recorded when an invocation returns.
RecordReturn(result, capped) ==
    /\ first_call' = IF runs = 1
                     THEN [scores |-> scores, candidates |-> candidates,
                           min_score |-> min_score]
                     ELSE first_call
    /\ first_result' = IF runs = 1 THEN result ELSE first_result
    /\ first_capped' = IF runs = 1 THEN capped ELSE first_capped

\* The locals of gale_shapley as lines 91-105 set them.
men_next_proposal_kept(mprefs) ==
    [man \in DOMAIN mprefs |->
        IF man \in DOMAIN men_next_proposal THEN men_next_proposal[man] ELSE 0]

men_next_proposal_init(mprefs) == [man \in DOMAIN mprefs |-> 0]

\* find_stable_matches up to the first iteration of gale_shapley's loop:
\* lines 174-189 and 91-105.  The two early returns end the invocation.
find_stable_matches(inp) ==
    /\ scores' = inp.scores
    /\ candidates' = inp.candidates
    /\ min_score' = inp.min_score
    /\ runs' = runs + 1
    /\ proposal_log' = <<>>
    /\ is_stable' = "none"
    /\ UNCHANGED <<selfVars, outsideMatching>>
    /\ LET filtered_scores == filter_scores(inp.scores, inp.min_score)
           built == build_preference_lists(filtered_scores, inp.candidates)
           early == \/ filtered_scores = <<>>
                    \/ DOMAIN built.men_preferences = {}
                    \/ DOMAIN built.women_preferences = {}
       IN  IF early
           THEN /\ pc' = "returned"
                /\ stable_matches' = <<>>
                /\ men_preferences' = <<>>
                /\ women_preferences' = <<>>
                /\ men_partner' = <<>>
                /\ women_partner' = <<>>
                /\ men_next_proposal' = <<>>
                /\ free_men' = <<>>
                /\ iteration' = 0
                /\ max_iterations' = 0
                /\ first_call' = IF runs = 0 THEN inp ELSE first_call
                /\ first_result' = IF runs = 0 THEN <<>> ELSE first_result
                /\ first_capped' = IF runs = 0 THEN FALSE ELSE first_capped
           ELSE /\ pc' = "gale_shapley"
                /\ stable_matches' = <<>>
                /\ men_preferences' = built.men_preferences
                /\ women_preferences' = built.women_preferences
                /\ men_partner' = <<>>
                /\ women_partner' = <<>>
                /\ men_next_proposal' = men_next_proposal_init(built.men_preferences)
                /\ free_men' = men(inp.candidates)
                /\ iteration' = 0
                /\ max_iterations' = Cardinality(DOMAIN built.men_preferences)
                                      * Cardinality(DOMAIN built.women_preferences)
                /\ UNCHANGED <<first_call, first_result, first_capped>>

\* The guard of the while loop, line 107.
LoopRuns == pc = "gale_shapley" /\ free_men # <<>> /\ iteration < max_iterations

man_ == Head(free_men)
woman_ == men_preferences[man_][men_next_proposal[man_] + 1]
HasNext == men_next_proposal[man_] < Len(men_preferences[man_])

StepFrame == UNCHANGED <<argVars, pc, men_preferences, women_preferences, max_iterations,
                         outVars, selfVars, runs, first_call, first_result, first_capped,
                         outsideMatching>>

\* Lines 108-113: the popped man has no woman left to propose to.
gs_exhausted ==
    /\ LoopRuns
    /\ ~HasNext
    /\ iteration' = iteration + 1
    /\ free_men' = Tail(free_men)
    /\ UNCHANGED <<men_partner, women_partner, men_next_proposal, proposal_log>>
    /\ StepFrame

Propose ==
    /\ LoopRuns
    /\ HasNext
    /\ iteration' = iteration + 1
    /\ men_next_proposal' = [men_next_proposal EXCEPT ![man_] = advance(@)]
    /\ proposal_log' = Append(proposal_log, <<man_, woman_>>)
    /\ StepFrame

\* Lines 119-122: the woman does not list the man; he stays free.
gs_unknown ==
    /\ Propose
    /\ ~Knows(women_preferences, woman_, man_)
    /\ free_men' = Append(Tail(free_men), man_)
    /\ UNCHANGED <<men_partner, women_partner>>

\* Lines 124-129: the woman is free.
gs_accept ==
    /\ Propose
    /\ Knows(women_preferences, woman_, man_)
    /\ woman_ \notin DOMAIN women_partner
    /\ men_partner' = DictSet(men_partner, man_, woman_)
    /\ women_partner' = (woman_ :> man_) @@ women_partner
    /\ free_men' = Tail(free_men)

\* Lines 131-148: the woman prefers the new man; her partner becomes free.
gs_displace ==
    /\ Propose
    /\ Knows(women_preferences, woman_, man_)
    /\ woman_ \in DOMAIN women_partner
    /\ LET current_partner == women_partner[woman_]
       IN  /\ new_is_better(women_preferences, woman_, man_, current_partner)
           /\ men_partner' = displaced(men_partner, man_, woman_, current_partner)
           /\ women_partner' = [women_partner EXCEPT ![woman_] = man_]
           /\ free_men' = Append(Tail(free_men), current_partner)

\* Lines 149-151: the woman keeps her partner; the man stays free.
gs_reject ==
    /\ Propose
    /\ Knows(women_preferences, woman_, man_)
    /\ woman_ \in DOMAIN women_partner
    /\ ~new_is_better(women_preferences, woman_, man_, women_partner[woman_])
    /\ free_men' = Append(Tail(free_men), man_)
    /\ UNCHANGED <<men_partner, women_partner>>

\* Lines 153-157 and 191-208: the loop is over, the matches are compiled,
\* sorted and returned.
gs_return ==
    /\ pc = "gale_shapley"
    /\ ~LoopRuns
    /\ stable_matches' = compile_matches(filter_scores(scores, min_score), men_partner)
    /\ pc' = "returned"
    /\ RecordReturn(compile_matches(filter_scores(scores, min_score), men_partner), Capped)
    /\ UNCHANGED <<argVars, gsVars, is_stable, selfVars, proposal_log, runs, outsideMatching>>

\* validate_stability applied to what find_stable_matches returned.
validate ==
    /\ pc = "returned"
    /\ is_stable' = IF validate_stability(stable_matches, scores) THEN "True" ELSE "False"
    /\ pc' = "validated"
    /\ UNCHANGED <<argVars, gsVars, stable_matches, selfVars, histVars, outsideMatching>>

GaleShapleyStep ==
    \/ gs_exhausted
    \/ gs_unknown
    \/ gs_accept
    \/ gs_displace
    \/ gs_reject
    \/ gs_return

(***************************************************************************)
(* RulesFilter                                                             *)
(*                                                                         *)
(* An Optional value is <<>> for None and <<v>> for a value v.  Locations  *)
(* lie on a line, a coordinate is a position in km, and geodesic is the    *)
(* distance between two positions.  The geocoder is outside the program:   *)
(* each lookup finds the location, finds nothing, or raises.               *)
(***************************************************************************)
None == <<>>
Some(v) == <<v>>

\* Python truthiness of an Optional[int] and of an Optional[List].
TruthyInt(o) == o # None /\ o[1] # 0
TruthyList(o) == o # None /\ o[1] # <<>>

\* default_coords, line 35: Tel Aviv is the origin of the line.
default_coords == 0

Locations == {"haifa", "eilat"}

\* Where the geocoder puts a location when it finds it.
TruePosition(location) == IF location = "haifa" THEN 90 ELSE 280

GeocodeOutcomes == {"found", "nothing", "raises"}

\* geodesic(coords1, coords2).kilometers
geodesic(coords1, coords2) ==
    IF coords1 >= coords2 THEN coords1 - coords2 ELSE coords2 - coords1

\* get_coordinates: the coordinates returned and the cache afterwards.  geo
\* gives what the geocoder answers for each location if it is asked now.
cache_after_failure_unchanged(cache, location) == cache

cache_after_failure(cache, location) == (location :> default_coords) @@ cache

get_coordinates(cache, location, geo) ==
    IF location \in DOMAIN cache
    THEN [coords |-> cache[location], cache |-> cache]
    ELSE IF geo[location] = "found"
         THEN [coords |-> TruePosition(location),
               cache |-> (location :> TruePosition(location)) @@ cache]
         ELSE [coords |-> default_coords, cache |-> cache_after_failure(cache, location)]

\* calculate_distance: get_coordinates does not raise, so neither does this.
calculate_distance(cache, location1, location2, geo) ==
    LET first == get_coordinates(cache, location1, geo)
        second == get_coordinates(first.cache, location2, geo)
    IN  [km |-> geodesic(first.coords, second.coords), cache |-> second.cache]

check_age_constraint(candidate, constraints) ==
    IF TruthyInt(constraints.min_age) /\ candidate.age < constraints.min_age[1] THEN FALSE
    ELSE IF TruthyInt(constraints.max_age) /\ candidate.age > constraints.max_age[1] THEN FALSE
    ELSE TRUE

\* check_distance_constraint: the verdict and the cache afterwards.
check_distance_constraint(cache, candidate, requester_location, constraints, geo) ==
    IF ~TruthyInt(constraints.max_distance_km)
    THEN [ok |-> TRUE, cache |-> cache]
    ELSE LET d == calculate_distance(cache, candidate.location, requester_location, geo)
         IN  [ok |-> d.km <= constraints.max_distance_km[1], cache |-> d.cache]

check_smoking_constraint(candidate, constraints) ==
    IF constraints.smoking = None THEN TRUE
    ELSE candidate.smoking = constraints.smoking[1]

check_community_constraint(candidate, constraints) ==
    IF ~TruthyList(constraints.required_communities) THEN TRUE
    ELSE Contains(constraints.required_communities[1], candidate.community)

check_religiosity_constraint(candidate, constraints) ==
    IF ~TruthyList(constraints.required_religiosity) THEN TRUE
    ELSE Contains(constraints.required_religiosity[1], candidate.religiosity_level)

check_language_constraint(candidate, constraints) ==
    IF ~TruthyList(constraints.required_languages) THEN TRUE
    ELSE \E i \in 1..Len(constraints.required_languages[1]) :
            Contains(candidate.languages, constraints.required_languages[1][i])

\* is_valid_match with the community check moved to the front.
is_valid_match_community_first(cache, candidate, requester, preferences, geo) ==
    LET constraints == preferences.must_have
        dist == check_distance_constraint(cache, candidate, requester.location,
                                          constraints, geo)
    IN  IF ~check_community_constraint(candidate, constraints)
        THEN [valid |-> FALSE, reason |-> "community", cache |-> cache]
        ELSE IF ~check_age_constraint(candidate, constraints)
        THEN [valid |-> FALSE, reason |-> "age", cache |-> cache]
        ELSE IF ~dist.ok
        THEN [valid |-> FALSE, reason |-> "distance", cache |-> dist.cache]
        ELSE IF ~check_smoking_constraint(candidate, constraints)
        THEN [valid |-> FALSE, reason |-> "smoking", cache |-> dist.cache]
        ELSE IF ~check_religiosity_constraint(candidate, constraints)
        THEN [valid |-> FALSE, reason |-> "religiosity", cache |-> dist.cache]
        ELSE IF ~check_language_constraint(candidate, constraints)
        THEN [valid |-> FALSE, reason |-> "language", cache |-> dist.cache]
        ELSE [valid |-> TRUE, reason |-> "passes", cache |-> dist.cache]

\* is_valid_match that turns a candidate down when the requester wrote about
\* the partner he or she has in mind.
is_valid_match_reads_free_text(cache, candidate, requester, preferences, geo) ==
    LET constraints == preferences.must_have
        dist == check_distance_constraint(cache, candidate, requester.location,
                                          constraints, geo)
    IN  IF ~check_age_constraint(candidate, constraints)
        THEN [valid |-> FALSE, reason |-> "age", cache |-> cache]
        ELSE IF ~dist.ok
        THEN [valid |-> FALSE, reason |-> "distance", cache |-> dist.cache]
        ELSE IF ~check_smoking_constraint(candidate, constraints)
        THEN [valid |-> FALSE, reason |-> "smoking", cache |-> dist.cache]
        ELSE IF ~check_community_constraint(candidate, constraints)
        THEN [valid |-> FALSE, reason |-> "community", cache |-> dist.cache]
        ELSE IF ~check_religiosity_constraint(candidate, constraints)
        THEN [valid |-> FALSE, reason |-> "religiosity", cache |-> dist.cache]
        ELSE IF ~check_language_constraint(candidate, constraints)
        THEN [valid |-> FALSE, reason |-> "language", cache |-> dist.cache]
        ELSE IF preferences.free_text # ""
        THEN [valid |-> FALSE, reason |-> "free_text", cache |-> dist.cache]
        ELSE [valid |-> TRUE, reason |-> "passes", cache |-> dist.cache]

\* is_valid_match: the verdict, the check named by the reason, and the cache
\* afterwards.
is_valid_match(cache, candidate, requester, preferences, geo) ==
    LET constraints == preferences.must_have
        dist == check_distance_constraint(cache, candidate, requester.location,
                                          constraints, geo)
    IN  IF ~check_age_constraint(candidate, constraints)
        THEN [valid |-> FALSE, reason |-> "age", cache |-> cache]
        ELSE IF ~dist.ok
        THEN [valid |-> FALSE, reason |-> "distance", cache |-> dist.cache]
        ELSE IF ~check_smoking_constraint(candidate, constraints)
        THEN [valid |-> FALSE, reason |-> "smoking", cache |-> dist.cache]
        ELSE IF ~check_community_constraint(candidate, constraints)
        THEN [valid |-> FALSE, reason |-> "community", cache |-> dist.cache]
        ELSE IF ~check_religiosity_constraint(candidate, constraints)
        THEN [valid |-> FALSE, reason |-> "religiosity", cache |-> dist.cache]
        ELSE IF ~check_language_constraint(candidate, constraints)
        THEN [valid |-> FALSE, reason |-> "language", cache |-> dist.cache]
        ELSE [valid |-> TRUE, reason |-> "passes", cache |-> dist.cache]

\* One is_valid_match call as it is observed: what it returned, next to what
\* each of the six checks and calculate_distance give for the same arguments,
\* the same cache and the same geocoder answers.
observed_call(cache, candidate, requester, preferences, geo) ==
    LET constraints == preferences.must_have
        r == is_valid_match(cache, candidate, requester, preferences, geo)
    IN  [candidate |-> candidate, valid |-> r.valid, reason |-> r.reason,
         age |-> check_age_constraint(candidate, constraints),
         distance |-> check_distance_constraint(cache, candidate, requester.location,
                                                constraints, geo).ok,
         smoking |-> check_smoking_constraint(candidate, constraints),
         community |-> check_community_constraint(candidate, constraints),
         religiosity |-> check_religiosity_constraint(candidate, constraints),
         language |-> check_language_constraint(candidate, constraints),
         km |-> calculate_distance(cache, candidate.location, requester.location, geo).km]

\* Lines 139 and 143: the candidates filter_candidates skips unchecked.
is_requester(candidate, requester) == candidate.id = requester.id

same_gender_ignored(candidate, requester) == FALSE

same_gender(candidate, requester) == candidate.gender = requester.gender

Profile(id, gender, age, location, smoking, community, religiosity_level, languages) ==
    [id |-> id, gender |-> gender, age |-> age, location |-> location,
     smoking |-> smoking, community |-> community,
     religiosity_level |-> religiosity_level, languages |-> languages]

HardConstraints(min_age, max_age, max_distance_km, smoking, required_communities, required_religiosity, required_languages) ==
    [min_age |-> min_age, max_age |-> max_age, max_distance_km |-> max_distance_km,
     smoking |-> smoking, required_communities |-> required_communities,
     required_religiosity |-> required_religiosity,
     required_languages |-> required_languages]

NiceToHave(preferred_education, preferred_occupation, preferred_location, family_size_preference, lifestyle_preferences) ==
    [preferred_education |-> preferred_education,
     preferred_occupation |-> preferred_occupation,
     preferred_location |-> preferred_location,
     family_size_preference |-> family_size_preference,
     lifestyle_preferences |-> lifestyle_preferences]

Preferences(candidate_id, must_have, nice_to_have, free_text) ==
    [candidate_id |-> candidate_id, must_have |-> must_have,
     nice_to_have |-> nice_to_have, free_text |-> free_text]

\* The arguments before the first call.
NoProfile == Profile("", "M", 18, "haifa", FALSE, "hasidic", "strict", <<"hebrew">>)
NoPreferences ==
    Preferences("", HardConstraints(None, None, None, None, None, None, None), None, "")

InitFilter ==
    /\ location_cache = <<>>
    /\ f_candidates = <<>>
    /\ f_requester = NoProfile
    /\ f_preferences = NoPreferences
    /\ f_pc = "idle"
    /\ f_index = 0
    /\ valid_candidates = <<>>
    /\ f_verdict = None
    /\ t_preferences = NoPreferences
    /\ t_location_cache = <<>>
    /\ t_valid_candidates = <<>>
    /\ t_verdict = None

\* filter_candidates is entered: line 135.
filter_candidates(inp) ==
    /\ f_candidates' = inp.candidates
    /\ f_requester' = inp.requester
    /\ f_preferences' = inp.preferences
    /\ f_pc' = "loop"
    /\ f_index' = 1
    /\ valid_candidates' = <<>>
    /\ f_verdict' = None
    /\ t_preferences' = inp.twin
    /\ t_valid_candidates' = <<>>
    /\ t_verdict' = None
    /\ UNCHANGED <<location_cache, t_location_cache, outsideFilter>>

InLoop == f_pc = "loop" /\ f_index <= Len(f_candidates)

FilterFrame ==
    UNCHANGED <<f_candidates, f_requester, f_preferences, f_pc, t_preferences, outsideFilter>>

\* Nothing was checked: the records of the checks stay as they are.
NotChecked ==
    UNCHANGED <<location_cache, valid_candidates, f_verdict,
                t_location_cache, t_valid_candidates, t_verdict>>

\* Lines 139-140: the requester is not offered to himself.
filter_skip_requester ==
    /\ InLoop
    /\ is_requester(f_candidates[f_index], f_requester)
    /\ f_index' = f_index + 1
    /\ NotChecked
    /\ FilterFrame

\* Lines 143-144: only the other gender is offered.
filter_skip_same_gender ==
    /\ InLoop
    /\ ~is_requester(f_candidates[f_index], f_requester)
    /\ same_gender(f_candidates[f_index], f_requester)
    /\ f_index' = f_index + 1
    /\ NotChecked
    /\ FilterFrame

\* Lines 146-148: the candidate is checked and kept when valid.
filter_check ==
    /\ InLoop
    /\ ~is_requester(f_candidates[f_index], f_requester)
    /\ ~same_gender(f_candidates[f_index], f_requester)
    /\ \E geo \in [Locations -> GeocodeOutcomes] :
          LET r == is_valid_match(location_cache, f_candidates[f_index], f_requester,
                                  f_preferences, geo)
              t == is_valid_match(t_location_cache, f_candidates[f_index], f_requester,
                                  t_preferences, geo)
          IN  /\ location_cache' = r.cache
              /\ valid_candidates' =
                    IF r.valid
                    THEN Append(valid_candidates, <<f_candidates[f_index], r.reason>>)
                    ELSE valid_candidates
              /\ f_verdict' = Some(observed_call(location_cache, f_candidates[f_index],
                                                 f_requester, f_preferences, geo))
              /\ t_location_cache' = t.cache
              /\ t_valid_candidates' =
                    IF t.valid
                    THEN Append(t_valid_candidates, <<f_candidates[f_index], t.reason>>)
                    ELSE t_valid_candidates
              /\ t_verdict' = Some(observed_call(t_location_cache, f_candidates[f_index],
                                                 f_requester, t_preferences, geo))
    /\ f_index' = f_index + 1
    /\ FilterFrame

\* Lines 150-151: the loop is over.
filter_return ==
    /\ f_pc = "loop"
    /\ f_index > Len(f_candidates)
    /\ f_pc' = "returned"
    /\ UNCHANGED <<f_candidates, f_requester, f_preferences, f_index, t_preferences,
                   outsideFilter>>
    /\ NotChecked

FilterStep ==
    \/ filter_skip_requester
    \/ filter_skip_same_gender
    \/ filter_check
    \/ filter_return

(***************************************************************************)
(* MatchingScorer (src/src/scoring.py).  A component score in [0,1] is an  *)
(* integer in units of 1/ScoreUnit, a weight an integer in units of        *)
(* 1/WeightUnit, a total score is in units of 1/(ScoreUnit * WeightUnit).  *)
(***************************************************************************)
ScoreUnit == 6000
WeightUnit == 1000

Tenths(n) == n * (ScoreUnit \div 10)

Abs(x) == IF x >= 0 THEN x ELSE 0 - x
Min(x, y) == IF x <= y THEN x ELSE y
Max(x, y) == IF x >= y THEN x ELSE y

RECURSIVE SumOver(_, _)
SumOver(f, keys) ==
    IF keys = {} THEN 0
    ELSE LET k == CHOOSE x \in keys : TRUE IN f[k] + SumOver(f, keys \ {k})

\* sum(d.values())
SumValues(d) == SumOver(d, DOMAIN d)

Communities ==
    {"lithuanian", "hasidic", "sephardic", "modern_orthodox", "national_religious"}

ReligiosityLevels == {"very_strict", "strict", "moderate", "flexible"}

WeightNames ==
    {"semantic_similarity", "religious_compatibility", "age_compatibility",
     "location_compatibility", "other_factors"}

\* __init__, lines 21-27.
default_weights ==
    [semantic_similarity |-> 550, religious_compatibility |-> 200,
     age_compatibility |-> 100, location_compatibility |-> 100, other_factors |-> 50]

\* A community matrix in which lithuanian and hasidic do not agree.
community_compatibility_skewed ==
    [lithuanian |->
        [lithuanian |-> Tenths(10), hasidic |-> Tenths(6), sephardic |-> Tenths(7),
         modern_orthodox |-> Tenths(4), national_religious |-> Tenths(5)],
     hasidic |->
        [lithuanian |-> Tenths(5), hasidic |-> Tenths(10), sephardic |-> Tenths(5),
         modern_orthodox |-> Tenths(3), national_religious |-> Tenths(4)],
     sephardic |->
        [lithuanian |-> Tenths(7), hasidic |-> Tenths(5), sephardic |-> Tenths(10),
         modern_orthodox |-> Tenths(6), national_religious |-> Tenths(7)],
     modern_orthodox |->
        [lithuanian |-> Tenths(4), hasidic |-> Tenths(3), sephardic |-> Tenths(6),
         modern_orthodox |-> Tenths(10), national_religious |-> Tenths(8)],
     national_religious |->
        [lithuanian |-> Tenths(5), hasidic |-> Tenths(4), sephardic |-> Tenths(7),
         modern_orthodox |-> Tenths(8), national_religious |-> Tenths(10)]]

\* _build_compatibility_matrices, lines 36-72.
community_compatibility ==
    [lithuanian |->
        [lithuanian |-> Tenths(10), hasidic |-> Tenths(6), sephardic |-> Tenths(7),
         modern_orthodox |-> Tenths(4), national_religious |-> Tenths(5)],
     hasidic |->
        [lithuanian |-> Tenths(6), hasidic |-> Tenths(10), sephardic |-> Tenths(5),
         modern_orthodox |-> Tenths(3), national_religious |-> Tenths(4)],
     sephardic |->
        [lithuanian |-> Tenths(7), hasidic |-> Tenths(5), sephardic |-> Tenths(10),
         modern_orthodox |-> Tenths(6), national_religious |-> Tenths(7)],
     modern_orthodox |->
        [lithuanian |-> Tenths(4), hasidic |-> Tenths(3), sephardic |-> Tenths(6),
         modern_orthodox |-> Tenths(10), national_religious |-> Tenths(8)],
     national_religious |->
        [lithuanian |-> Tenths(5), hasidic |-> Tenths(4), sephardic |-> Tenths(7),
         modern_orthodox |-> Tenths(8), national_religious |-> Tenths(10)]]

\* _build_compatibility_matrices, lines 75-100.
religiosity_compatibility ==
    [very_strict |->
        [very_strict |-> Tenths(10), strict |-> Tenths(8), moderate |-> Tenths(4),
         flexible |-> Tenths(2)],
     strict |->
        [very_strict |-> Tenths(8), strict |-> Tenths(10), moderate |-> Tenths(7),
         flexible |-> Tenths(4)],
     moderate |->
        [very_strict |-> Tenths(4), strict |-> Tenths(7), moderate |-> Tenths(10),
         flexible |-> Tenths(8)],
     flexible |->
        [very_strict |-> Tenths(2), strict |-> Tenths(4), moderate |-> Tenths(8),
         flexible |-> Tenths(10)]]

\* HebrewEmbeddings.calculate_similarity, line 173: the cosine is clamped.
calculate_similarity(cosine) == Max(0, Min(ScoreUnit, cosine))

\* matrix.get(a, {}).get(b, 0.5)
matrix_get(matrix, a, b) == GetOr(GetOr(matrix, a, <<>>), b, Tenths(5))

calculate_religious_compatibility(candidate_a, candidate_b) ==
    LET community_score ==
            matrix_get(community_compatibility, candidate_a.community, candidate_b.community)
        religiosity_score ==
            matrix_get(religiosity_compatibility, candidate_a.religiosity_level,
                       candidate_b.religiosity_level)
    IN  (community_score * 6 + religiosity_score * 4) \div 10

\* calculate_age_compatibility without the 0.8 step.
calculate_age_compatibility_steep(candidate_a, candidate_b) ==
    LET age_diff == Abs(candidate_a.age - candidate_b.age)
    IN  IF age_diff <= 2 THEN Tenths(10)
        ELSE IF age_diff <= 8 THEN Tenths(6)
        ELSE IF age_diff <= 12 THEN Tenths(4)
        ELSE Tenths(2)

calculate_age_compatibility(candidate_a, candidate_b) ==
    LET age_diff == Abs(candidate_a.age - candidate_b.age)
    IN  IF age_diff <= 2 THEN Tenths(10)
        ELSE IF age_diff <= 5 THEN Tenths(8)
        ELSE IF age_diff <= 8 THEN Tenths(6)
        ELSE IF age_diff <= 12 THEN Tenths(4)
        ELSE Tenths(2)

\* calculate_location_compatibility: the score and the scorer's cache
\* afterwards.  calculate_distance does not raise, so line 179 is never run.
calculate_location_compatibility(cache, candidate_a, candidate_b, geo) ==
    LET d == calculate_distance(cache, candidate_a.location, candidate_b.location, geo)
        score == IF d.km <= 10 THEN Tenths(10)
                 ELSE IF d.km <= 25 THEN Tenths(8)
                 ELSE IF d.km <= 50 THEN Tenths(6)
                 ELSE IF d.km <= 100 THEN Tenths(4)
                 ELSE Tenths(2)
    IN  [score |-> score, cache |-> d.cache]

calculate_other_factors(candidate_a, candidate_b) ==
    LET education_compatibility ==
            IF candidate_a.education = candidate_b.education THEN Tenths(10) ELSE Tenths(7)
        common_languages == Range(candidate_a.languages) \cap Range(candidate_b.languages)
        language_score ==
            Min(ScoreUnit, (ScoreUnit * Cardinality(common_languages))
                               \div Max(Len(candidate_a.languages), 1))
        smoking_score ==
            IF candidate_a.smoking = candidate_b.smoking THEN Tenths(10) ELSE Tenths(3)
    IN  (education_compatibility + language_score + smoking_score) \div 3

\* MatchScore, data_schemas.py lines 98-103: every score field is within [0,1].
match_score_is_valid(total_score, components) ==
    /\ 0 <= total_score /\ total_score <= ScoreUnit * WeightUnit
    /\ \A i \in 1..Len(components) : 0 <= components[i] /\ components[i] <= ScoreUnit

\* calculate_match_score: the MatchScore it returns, or the ValidationError the
\* MatchScore constructor raises, and the scorer's cache afterwards.  cosine
\* is the cosine similarity of the two texts.
calculate_match_score(w, cache, candidate_a, candidate_b, cosine, geo) ==
    LET semantic_similarity == calculate_similarity(cosine)
        religious_compatibility == calculate_religious_compatibility(candidate_a, candidate_b)
        age_compatibility == calculate_age_compatibility(candidate_a, candidate_b)
        location == calculate_location_compatibility(cache, candidate_a, candidate_b, geo)
        other_factors == calculate_other_factors(candidate_a, candidate_b)
        total_score ==
            semantic_similarity * w["semantic_similarity"]
            + religious_compatibility * w["religious_compatibility"]
            + age_compatibility * w["age_compatibility"]
            + location.score * w["location_compatibility"]
            + other_factors * w["other_factors"]
    IN  [outcome |->
            IF match_score_is_valid(total_score,
                   <<semantic_similarity, religious_compatibility, age_compatibility,
                     location.score, other_factors>>)
            THEN "MatchScore" ELSE "ValidationError",
         candidate_a |-> candidate_a,
         candidate_b |-> candidate_b,
         total_score |-> total_score,
         semantic_similarity |-> semantic_similarity,
         religious_compatibility |-> religious_compatibility,
         age_compatibility |-> age_compatibility,
         location_compatibility |-> location.score,
         other_factors |-> other_factors,
         cache |-> location.cache]

\* update_weights, line 309: the map is turned down.
weights_rejected(new_weights) == Abs(SumValues(new_weights) - WeightUnit) > WeightUnit \div 100

\* update_weights, line 312: self.weights.update(new_weights)
weights_after_update(old_weights, new_weights) == new_weights @@ old_weights

InitScorer ==
    /\ weights = default_weights
    /\ scorer_cache = <<>>
    /\ weights_outcome = "none"
    /\ weights_before = default_weights
    /\ updates = 0
    /\ match_score = None

update_weights(new_weights) ==
    /\ weights_before' = weights
    /\ updates' = updates + 1
    /\ IF weights_rejected(new_weights)
       THEN /\ weights_outcome' = "ValueError"
            /\ weights' = weights
       ELSE /\ weights_outcome' = "updated"
            /\ weights' = weights_after_update(weights, new_weights)
    /\ match_score' = None
    /\ UNCHANGED <<scorer_cache, compatVars, outsideScorer>>

score_pair(candidate_a, candidate_b, cosine, geo) ==
    LET r == calculate_match_score(weights, scorer_cache, candidate_a, candidate_b,
                                   cosine, geo)
    IN  /\ match_score' = Some(r)
        /\ scorer_cache' = r.cache
        /\ UNCHANGED <<weights, weights_outcome, weights_before, updates, compatVars,
                       outsideScorer>>

\* calculate_religious_compatibility and calculate_age_compatibility called on
\* their own: neither touches the scorer's fields.
religious_pair(candidate_a, candidate_b) ==
    /\ religious_call' = Some([candidate_a |-> candidate_a, candidate_b |-> candidate_b,
                               score |-> calculate_religious_compatibility(candidate_a,
                                                                           candidate_b)])
    /\ UNCHANGED <<age_call, batch_scores, scorerVars, outsideScorer>>

age_pair(candidate_a, candidate_b) ==
    /\ age_call' = Some([candidate_a |-> candidate_a, candidate_b |-> candidate_b,
                         score |-> calculate_age_compatibility(candidate_a, candidate_b)])
    /\ UNCHANGED <<religious_call, batch_scores, scorerVars, outsideScorer>>

\* batch_score_candidates, lines 337-339: where the loop goes on after the
\* i-th of n candidates ended in `outcome`, here by giving up the rest.
continue_at_giving_up(outcome, i, n) == IF outcome = "ValidationError" THEN n + 1 ELSE i + 1

\* batch_score_candidates, lines 337-339: the except clause ends in continue.
continue_at(outcome, i, n) == i + 1

\* batch_score_candidates, lines 322-339: the loop from the i-th candidate on.
\* with_preferences holds the keys of candidates_preferences, cosines[i] is
\* the cosine similarity of the requester's text and the i-th candidate's,
\* acc the scores and the cache so far and how each candidate fared.
RECURSIVE batch_loop(_, _, _, _, _, _, _, _)
batch_loop(w, requester, pool, with_preferences, cosines, geo, i, acc) ==
    IF i > Len(pool) THEN acc
    ELSE IF pool[i].id = requester.id
    THEN batch_loop(w, requester, pool, with_preferences, cosines, geo, i + 1,
                    [acc EXCEPT !.visited = Append(@, "requester")])
    ELSE IF pool[i].id \notin with_preferences
    THEN batch_loop(w, requester, pool, with_preferences, cosines, geo, i + 1,
                    [acc EXCEPT !.visited = Append(@, "no_preferences")])
    ELSE LET r == calculate_match_score(w, acc.cache, requester, pool[i], cosines[i], geo)
         IN  batch_loop(w, requester, pool, with_preferences, cosines, geo,
                        continue_at(r.outcome, i, Len(pool)),
                        [scores |-> IF r.outcome = "MatchScore"
                                    THEN Append(acc.scores, r) ELSE acc.scores,
                         cache |-> r.cache,
                         visited |-> Append(acc.visited, r.outcome)])

\* batch_score_candidates, line 342: scores.sort(key=lambda x: x.total_score, reverse=True)
sort_by_total_score(xs) == SortedDesc(xs, [j \in 1..Len(xs) |-> xs[j].total_score])

\* batch_score_candidates: the sorted scores, the scorer's cache afterwards
\* and how each candidate fared.
batch_score_candidates(w, cache, requester, pool, with_preferences, cosines, geo) ==
    LET done == batch_loop(w, requester, pool, with_preferences, cosines, geo, 1,
                           [scores |-> <<>>, cache |-> cache, visited |-> <<>>])
    IN  [scores |-> sort_by_total_score(done.scores),
         cache |-> done.cache,
         visited |-> done.visited]

batch(requester, pool, with_preferences, cosines, geo) ==
    LET r == batch_score_candidates(weights, scorer_cache, requester, pool, with_preferences,
                                    cosines, geo)
    IN  /\ batch_scores' = Some([requester |-> requester, candidates |-> pool,
                                 with_preferences |-> with_preferences, cosines |-> cosines,
                                 geo |-> geo, weights |-> weights, cache_before |-> scorer_cache,
                                 visited |-> r.visited, scores |-> r.scores])
        /\ scorer_cache' = r.cache
        /\ UNCHANGED <<weights, weights_outcome, weights_before, updates, match_score,
                       religious_call, age_call, outsideScorer>>

InitCompat ==
    /\ religious_call = None
    /\ age_call = None
    /\ batch_scores = None

(***************************************************************************)
(* MatchingRanker (src/src/ranker.py).  A score in [0,1] is an integer in  *)
(* units of 1/RankUnit, a raw prediction of the model an integer in units  *)
(* of 1/RawUnit.                                                           *)
(***************************************************************************)
RankUnit == 10
RawUnit == 2

\* __init__, lines 27-34.
feedback_scores ==
    [matched |-> 5, meeting_arranged |-> 4, contact_made |-> 3, sent |-> 2,
     no_response |-> 1, rejected |-> 0]

\* extract_features, lines 72-125: the names of the features it returns for a
\* map of base scores with the given keys, the keys of base_scores first.
extract_features(base_score_names) ==
    base_score_names \o
    SelectSeq(<<"age_diff", "age_a", "age_b", "same_community", "same_religiosity",
                "same_education", "same_smoking", "common_languages_count",
                "language_overlap_ratio", "description_length_a", "description_length_b",
                "preferences_length_a", "preferences_length_b", "age_in_range_a",
                "age_in_range_b", "community_match_a", "community_match_b">>,
              LAMBDA n : ~Contains(base_score_names, n))

\* Lines 139-143: the requester ids in the order of their first feedback.
RECURSIVE requesters_in_order(_)
requesters_in_order(feedback_data) ==
    IF feedback_data = <<>> THEN <<>>
    ELSE LET before == requesters_in_order(SubSeq(feedback_data, 1, Len(feedback_data) - 1))
             last == feedback_data[Len(feedback_data)].candidate_a_id
         IN  IF Contains(before, last) THEN before ELSE Append(before, last)

\* Lines 155-180: the rows of one requester's group, <<features, label>> each.
group_rows(requester_feedback, candidates_data, preferences_data, base_scores_data) ==
    LET kept == SelectSeq(requester_feedback, LAMBDA feedback :
                    /\ feedback.candidate_b_id \in candidates_data
                    /\ feedback.candidate_b_id \in preferences_data
                    /\ <<feedback.candidate_a_id, feedback.candidate_b_id>>
                           \in DOMAIN base_scores_data)
    IN  [i \in 1..Len(kept) |->
            <<[requester |-> kept[i].candidate_a_id, candidate |-> kept[i].candidate_b_id,
               names |-> extract_features(
                   base_scores_data[<<kept[i].candidate_a_id, kept[i].candidate_b_id>>])],
              GetOr(feedback_scores, kept[i].status, 1)>>]

\* A group is used from this many rows on: line 182, len(group_features) > 1.
group_is_used_always(rows) == TRUE

group_is_used(rows) == Len(rows) > 1

\* Lines 145-185: the groups that are used, in the order of the requesters.
RECURSIVE used_groups(_, _, _, _, _)
used_groups(requester_ids, feedback_data, candidates_data, preferences_data, base_scores_data) ==
    IF requester_ids = <<>> THEN <<>>
    ELSE LET requester_id == Head(requester_ids)
             rest == used_groups(Tail(requester_ids), feedback_data, candidates_data,
                                 preferences_data, base_scores_data)
             rows == group_rows(
                         SelectSeq(feedback_data, LAMBDA f : f.candidate_a_id = requester_id),
                         candidates_data, preferences_data, base_scores_data)
         IN  IF requester_id \notin candidates_data \/ requester_id \notin preferences_data
             THEN rest
             ELSE IF group_is_used(rows) THEN <<rows>> \o rest
             ELSE rest

\* prepare_training_data: what it returns, or the ValueError of line 188, and
\* self.feature_names afterwards.  candidates_data and preferences_data are
\* given by their keys.
prepare_training_data(names, feedback_data, candidates_data, preferences_data, base_scores_data) ==
    LET groups == used_groups(requesters_in_order(feedback_data), feedback_data,
                              candidates_data, preferences_data, base_scores_data)
        training == Concat(groups)
    IN  IF training = <<>>
        THEN [outcome |-> "ValueError", rows |-> <<>>, labels |-> <<>>,
              group_sizes |-> <<>>, feature_names |-> names]
        ELSE [outcome |-> "returned",
              rows |-> [i \in 1..Len(training) |-> training[i][1]],
              labels |-> [i \in 1..Len(training) |-> training[i][2]],
              group_sizes |-> [g \in 1..Len(groups) |-> Len(groups[g])],
              \* the columns of the DataFrame: the names of the first row
              feature_names |-> training[1][1].names]

\* Lines 264 and 287: base_scores.get('total_score', 0.5)
base_total_score(base_scores) == GetOr(base_scores, "total_score", RankUnit \div 2)

\* predict_score without the clamp of line 281.
predict_score_unclamped(trained, mdl, base_scores, extraction, prediction) ==
    IF ~trained THEN base_total_score(base_scores)
    ELSE IF extraction = "raises" THEN base_total_score(base_scores)
    ELSE IF mdl # "fitted" \/ prediction = None THEN base_total_score(base_scores)
    ELSE (prediction[1] * RankUnit) \div (5 * RawUnit)

\* predict_score: the score it returns.  extraction says whether
\* extract_features raises, prediction is what self.model.predict returns,
\* None when it raises; a model that was never fitted raises.
predict_score(trained, mdl, base_scores, extraction, prediction) ==
    IF ~trained THEN base_total_score(base_scores)
    ELSE IF extraction = "raises" THEN base_total_score(base_scores)
    ELSE IF mdl # "fitted" \/ prediction = None THEN base_total_score(base_scores)
    ELSE Max(0, Min(RankUnit, (prediction[1] * RankUnit) \div (5 * RawUnit)))

\* The columns of a model file written by an earlier training.
loaded_feature_names ==
    extract_features(<<"total_score", "semantic_similarity", "religious_compatibility",
                       "age_compatibility", "location_compatibility", "other_factors">>)

\* __init__ with no model file at model_path: lines 22-24, and _load_model
\* does nothing.
InitRanker ==
    /\ model = "None"
    /\ feature_names = <<>>
    /\ is_trained = FALSE
    /\ training_data = None
    /\ predicted = None
    /\ trainings = 0

\* __init__ with a model file that _load_model loads: lines 44-46.
InitRankerLoaded ==
    /\ model = "fitted"
    /\ feature_names = loaded_feature_names
    /\ is_trained = TRUE
    /\ training_data = None
    /\ predicted = None
    /\ trainings = 0

ranker_state == [model |-> model, feature_names |-> feature_names, is_trained |-> is_trained]

\* train: prepare_training_data, then the fit of a new CatBoostRanker and its
\* evaluation.  fit is "ok" when all of it goes through, "fit_raises" when
\* self.model.fit raises (line 235), "evaluation_raises" when the prediction
\* on the test rows or ndcg_score raises (lines 245-246); an exception leaves
\* train with the fields written so far.
train(inp, fit) ==
    LET d == prepare_training_data(feature_names, inp.feedback_data, inp.candidates_data,
                                   inp.preferences_data, inp.base_scores_data)
    IN  /\ training_data' = Some([arguments |-> inp, outcome |-> d.outcome, rows |-> d.rows,
                                  labels |-> d.labels, group_sizes |-> d.group_sizes,
                                  before |-> ranker_state,
                                  raised |-> (d.outcome = "ValueError" \/ fit # "ok")])
        /\ predicted' = None
        /\ trainings' = trainings + 1
        /\ feature_names' = d.feature_names
        /\ IF d.outcome = "ValueError"
           THEN UNCHANGED <<model, is_trained>>
           ELSE /\ model' = IF fit = "fit_raises" THEN "unfitted" ELSE "fitted"
                /\ is_trained' = IF fit = "fit_raises" THEN is_trained ELSE TRUE
        /\ UNCHANGED outsideRanker

predict(base_scores, extraction, prediction) ==
    /\ predicted' = Some([base_scores |-> base_scores, extraction |-> extraction,
                          prediction |-> prediction, before |-> ranker_state,
                          score |-> predict_score(is_trained, model, base_scores,
                                                  extraction, prediction)])
    /\ training_data' = None
    /\ UNCHANGED <<model, feature_names, is_trained, trainings, outsideRanker>>

(***************************************************************************)
(* Inputs                                                                  *)
(***************************************************************************)
Candidate(id, gender) == [id |-> id, gender |-> gender]

\* The pool of the main specification: three men and two women.
Pool == <<Candidate("m1", "M"), Candidate("m2", "M"), Candidate("m3", "M"),
          Candidate("w1", "F"), Candidate("w2", "F")>>

\* The scores one requester contributes: his or her targets in the order of
\* preference, with strictly decreasing scores from MaxScore down.  This is
\* what api.batch_search_matches collects per requester.
requester_scores(requester, targets) ==
    [i \in 1..Len(targets) |->
        MatchScore(requester, targets[i], IF i <= MaxScore THEN MaxScore + 1 - i ELSE 1)]

\* One list of targets per candidate of the pool, requesters in pool order.
RankedScores(pool, lists) ==
    Concat([i \in 1..Len(pool) |-> requester_scores(pool[i].id, lists[pool[i].id])])

TargetLists(pool) ==
    LET M == Range(men(pool))
        W == Range(women(pool))
        LM == {l \in NoRepeatLists(W) : Len(l) <= MaxTargets}
        LW == {l \in NoRepeatLists(M) : Len(l) <= MaxTargets}
    IN  {fm @@ fw : fm \in [M -> LM], fw \in [W -> LW]}

MinScores == {1, MaxScore}

RankedInputs(pool) ==
    {[scores |-> RankedScores(pool, lists), candidates |-> pool, min_score |-> 1] :
        lists \in TargetLists(pool)}

\* Symmetric score sets: every scored pair is scored in both directions with
\* one value; 0 in the table stands for "not scored".
PairSeq(pool) ==
    Concat([i \in 1..Len(men(pool)) |->
               [j \in 1..Len(women(pool)) |-> <<men(pool)[i], women(pool)[j]>>]])

SymmetricScores(pool, table) ==
    Concat([k \in 1..Len(PairSeq(pool)) |->
        LET pr == PairSeq(pool)[k]
        IN  IF table[pr] = 0 THEN <<>>
            ELSE <<MatchScore(pr[1], pr[2], table[pr]),
                   MatchScore(pr[2], pr[1], table[pr])>>])

SymmetricInputs(pool) ==
    {[scores |-> IF rev THEN Reverse(SymmetricScores(pool, table))
                 ELSE SymmetricScores(pool, table),
      candidates |-> pool, min_score |-> ms] :
        table \in [Range(PairSeq(pool)) -> 0..MaxScore], rev \in BOOLEAN, ms \in MinScores}

\* A pool with one side only, as a direct caller of the library may pass it.
MenOnly == <<Candidate("m1", "M"), Candidate("m2", "M")>>

OneSidedInputs ==
    {[scores |-> <<MatchScore("m1", "w1", MaxScore)>>, candidates |-> MenOnly,
      min_score |-> 1]}

MatchInputs(pool) == RankedInputs(pool) \cup SymmetricInputs(pool) \cup OneSidedInputs

(***************************************************************************)
(* Spec: one invocation of find_stable_matches on the pool of three men    *)
(* and two women, followed by validate_stability on its result.            *)
(***************************************************************************)
Init == InitMatching /\ InitFilter /\ InitScorer /\ InitCompat /\ InitRanker

\* The instance is not inside an invocation and may start up to `limit` of them.
MayCall(limit) == pc \in {"idle", "returned", "validated"} /\ runs < limit

Call == MayCall(1) /\ \E inp \in MatchInputs(Pool) : find_stable_matches(inp)

Next ==
    \/ Call
    \/ GaleShapleyStep
    \/ validate

Spec == Init /\ [][Next]_vars

\* The loop of gale_shapley is sequential code: once entered it keeps running.
FairSpec == Spec /\ WF_vars(GaleShapleyStep)

(***************************************************************************)
(* SpecRerun: up to MaxRuns invocations of find_stable_matches on one      *)
(* StableMatching instance, on a pool of two men and one woman.            *)
(***************************************************************************)
SmallPool == <<Candidate("m1", "M"), Candidate("m2", "M"), Candidate("w1", "F")>>

RerunInputs == RankedInputs(SmallPool)

CallAgain == MayCall(MaxRuns) /\ \E inp \in RerunInputs : find_stable_matches(inp)

NextRerun ==
    \/ CallAgain
    \/ GaleShapleyStep

SpecRerun == Init /\ [][NextRerun]_vars

(***************************************************************************)
(* Stability with respect to the preference lists                          *)
(***************************************************************************)
Returned == pc \in {"returned", "validated"}

\* The lists find_stable_matches builds from the arguments of the invocation.
BuiltLists == build_preference_lists(filter_scores(scores, min_score), candidates)

Men == Range(men(candidates))
Women == Range(women(candidates))

MatchedPairs == {<<stable_matches[i][1], stable_matches[i][2]>> : i \in 1..Len(stable_matches)}

ManMatched(m) == \E pr \in MatchedPairs : pr[1] = m
WomanMatched(w) == \E pr \in MatchedPairs : pr[2] = w
PartnerOfMan(m) == (CHOOSE pr \in MatchedPairs : pr[1] = m)[2]
PartnerOfWoman(w) == (CHOOSE pr \in MatchedPairs : pr[2] = w)[1]

\* m and w list each other, are not matched to each other, and each is
\* unmatched or ranks the other above the current partner.
BlockingPair(m, w) ==
    LET mp == BuiltLists.men_preferences
        wp == BuiltLists.women_preferences
    IN  /\ Contains(mp[m], w)
        /\ Contains(wp[w], m)
        /\ <<m, w>> \notin MatchedPairs
        /\ \/ ~ManMatched(m)
           \/ IndexOf(mp[m], w) < IndexOf(mp[m], PartnerOfMan(m))
        /\ \/ ~WomanMatched(w)
           \/ IndexOf(wp[w], m) < IndexOf(wp[w], PartnerOfWoman(w))

\* C1: the matching find_stable_matches returns has no blocking pair with
\* respect to the preference lists built from the scores.
C1_NoBlockingPair ==
    Returned => ~\E m \in Men, w \in Women : BlockingPair(m, w)

\* Every score has its mirror image with the same value, and no directed pair
\* carries two different values.
Symmetrized(sc) ==
    /\ \A i \in 1..Len(sc) : \E j \in 1..Len(sc) :
          /\ sc[j].candidate_a_id = sc[i].candidate_b_id
          /\ sc[j].candidate_b_id = sc[i].candidate_a_id
          /\ sc[j].total_score = sc[i].total_score
    /\ \A i, j \in 1..Len(sc) :
          (sc[i].candidate_a_id = sc[j].candidate_a_id
           /\ sc[i].candidate_b_id = sc[j].candidate_b_id)
          => sc[i].total_score = sc[j].total_score

\* C2: on a symmetrized score set, validate_stability accepts the matching
\* that find_stable_matches returned for it.
C2_RoundTrip ==
    (pc = "validated" /\ Symmetrized(scores)) => is_stable = "True"

\* A symmetrized run with two matches and a scored pair across them, which
\* validate_stability has to compare with the partners' scores.
C2_Witness ==
    /\ pc = "validated"
    /\ Symmetrized(scores)
    /\ Len(stable_matches) = 2
    /\ \E i \in 1..Len(scores) :
          /\ ManMatched(scores[i].candidate_a_id)
          /\ WomanMatched(scores[i].candidate_b_id)
          /\ <<scores[i].candidate_a_id, scores[i].candidate_b_id>> \notin MatchedPairs
    /\ is_stable = "True"

\* C3: men_partner and women_partner are mutual inverses after every
\* iteration, and no id is in two of the returned tuples.
C3_PartialBijection ==
    /\ \A i, j \in 1..Len(men_partner) : men_partner[i][1] = men_partner[j][1] => i = j
    /\ pc = "gale_shapley" =>
          /\ \A i \in 1..Len(men_partner) :
                /\ men_partner[i][2] \in DOMAIN women_partner
                /\ women_partner[men_partner[i][2]] = men_partner[i][1]
          /\ \A w \in DOMAIN women_partner :
                /\ DictHas(men_partner, women_partner[w])
                /\ DictGet(men_partner, women_partner[w]) = w
    /\ \A i, j \in 1..Len(stable_matches) :
          (\/ stable_matches[i][1] = stable_matches[j][1]
           \/ stable_matches[i][2] = stable_matches[j][2]) => i = j

\* A run in which a man was displaced and two pairs were returned.
C3_Witness ==
    /\ pc = "returned"
    /\ Len(stable_matches) = 2
    /\ \E k \in 1..Len(proposal_log) :
          /\ proposal_log[k] \notin MatchedPairs
          /\ \E pr \in MatchedPairs : pr[2] = proposal_log[k][2]
          /\ Knows(women_preferences, proposal_log[k][2], proposal_log[k][1])

\* C4: gale_shapley terminates, makes at most |men| x |women| proposals, and
\* no man proposes to the same woman twice.
C4_ProposalsBounded ==
    /\ [](/\ Len(proposal_log) <= Cardinality(Men) * Cardinality(Women)
          /\ \A i, j \in 1..Len(proposal_log) : proposal_log[i] = proposal_log[j] => i = j
          /\ iteration <= max_iterations)
    /\ (pc = "gale_shapley" ~> pc = "returned")

\* A run that made every one of the |men| x |women| proposals.
C4_Witness ==
    /\ pc = "returned"
    /\ Cardinality(Men) * Cardinality(Women) > 1
    /\ Len(proposal_log) = Cardinality(Men) * Cardinality(Women)

\* C5: a result returned after the cap stopped the loop with free men in the
\* queue can be told apart from the result of a run whose queue drained: two
\* invocations that return the same value agree on having been capped.
C5_CapIsReported ==
    (pc = "returned" /\ runs >= 2 /\ stable_matches = first_result)
        => (Capped <=> first_capped)

\* C6: after the lists are built, a pair scored (at or above min_score) in
\* either direction is on both lists, and a pair scored in neither direction
\* is on neither list.
C6_ListsSymmetrized ==
    pc = "gale_shapley" =>
        \A m \in Men, w \in Women :
            LET sc == filter_scores(scores, min_score)
                scored == \E i \in 1..Len(sc) :
                    \/ sc[i].candidate_a_id = m /\ sc[i].candidate_b_id = w
                    \/ sc[i].candidate_a_id = w /\ sc[i].candidate_b_id = m
            IN  /\ scored => (Contains(men_preferences[m], w) /\ Contains(women_preferences[w], m))
                /\ ~scored => (~Contains(men_preferences[m], w) /\ ~Contains(women_preferences[w], m))

ThisCall == [scores |-> scores, candidates |-> candidates, min_score |-> min_score]

\* C8: an invocation with the arguments of the first invocation returns what
\* the first invocation returned, whatever was invoked in between.
C8_SameInputSameOutput ==
    (pc = "returned" /\ runs >= 2 /\ ThisCall = first_call)
        => stable_matches = first_result

\* The third invocation repeats the first one, a different one came in
\* between, and the result is a non-empty matching.
C8_Witness ==
    /\ pc = "returned"
    /\ runs = 3
    /\ ThisCall = first_call
    /\ stable_matches # <<>>
    /\ stable_matches = first_result
    /\ \E i \in 1..Len(proposal_log) : proposal_log[i] \notin MatchedPairs

(***************************************************************************)
(* SpecClassic: three men and three women, every one of them with a strict *)
(* total order over the three of the other side.                           *)
(***************************************************************************)
ClassicPool == <<Candidate("m1", "M"), Candidate("m2", "M"), Candidate("m3", "M"),
                 Candidate("w1", "F"), Candidate("w2", "F"), Candidate("w3", "F")>>

\* Strictly decreasing scores Len(targets), ..., 1 in the order of preference.
strict_scores(requester, targets) ==
    [i \in 1..Len(targets) |-> MatchScore(requester, targets[i], Len(targets) + 1 - i)]

ClassicInputs ==
    LET M == Range(men(ClassicPool))
        W == Range(women(ClassicPool))
    IN  {[scores |-> Concat([i \in 1..Len(ClassicPool) |->
                        strict_scores(ClassicPool[i].id, (fm @@ fw)[ClassicPool[i].id])]),
          candidates |-> ClassicPool, min_score |-> 1] :
            fm \in [M -> Permutations_(W)], fw \in [W -> Permutations_(M)]}

CallClassic == MayCall(1) /\ \E inp \in ClassicInputs : find_stable_matches(inp)

\* With complete mutual lists no man meets a woman who does not list him, and
\* no man is popped with his list used up (ClassicLoopInv below): those two
\* branches of the loop are left out of this specification.
NextClassic ==
    \/ CallClassic
    \/ gs_accept
    \/ gs_displace
    \/ gs_reject
    \/ gs_return

SpecClassic == Init /\ [][NextClassic]_vars

ClassicLoopInv ==
    LoopRuns => (HasNext /\ Knows(women_preferences, woman_, man_))

\* The perfect matchings of the pool, as functions man -> woman.
PerfectMatchings == {f \in [Men -> Women] : \A a, b \in Men : f[a] = f[b] => a = b}

\* f has no blocking pair with respect to the lists mp, wp.
StableMatchingOf(f, mp, wp) ==
    ~\E m \in Men, w \in Women :
        /\ f[m] # w
        /\ IndexOf(mp[m], w) < IndexOf(mp[m], f[m])
        /\ \E m2 \in Men : f[m2] = w /\ IndexOf(wp[w], m) < IndexOf(wp[w], m2)

\* The best woman m has in any stable perfect matching.
BestStablePartner(m, mp, wp) ==
    LET ws == {f[m] : f \in {g \in PerfectMatchings : StableMatchingOf(g, mp, wp)}}
    IN  CHOOSE w \in ws : \A v \in ws : IndexOf(mp[m], w) <= IndexOf(mp[m], v)

\* C7: on three men and three women with strict complete orders, all six are
\* matched and every man has the best partner he has in any stable matching.
C7_ManOptimal ==
    /\ ClassicLoopInv
    /\ Returned =>
          /\ Len(stable_matches) = Cardinality(Men)
          /\ \A m \in Men :
                /\ ManMatched(m)
                /\ PartnerOfMan(m) =
                       BestStablePartner(m, men_preferences, women_preferences)

\* An instance in which a man was displaced and nobody got the first choice of
\* everybody: some man is matched below his first choice.
C7_Witness ==
    /\ pc = "returned"
    /\ Len(stable_matches) = 3
    /\ \E m \in Men : PartnerOfMan(m) # men_preferences[m][1]
    /\ \E k \in 1..Len(proposal_log) : proposal_log[k] \notin MatchedPairs

(***************************************************************************)
(* validate_stability against the scores as given                          *)
(***************************************************************************)
HasScore(sc, a, b) ==
    \E i \in 1..Len(sc) : sc[i].candidate_a_id = a /\ sc[i].candidate_b_id = b

\* The score of x for its partner p: the score x gave p when there is one,
\* the score p gave x only when x gave none.
PartnerScore(sc, x, p) ==
    IF HasScore(sc, x, p) THEN score_lookup(sc, x, p) ELSE score_lookup(sc, p, x)

IsMatched(x) == \E pr \in MatchedPairs : pr[1] = x \/ pr[2] = x

PartnerOf(x) ==
    LET pr == CHOOSE q \in MatchedPairs : q[1] = x \/ q[2] = x
    IN  IF pr[1] = x THEN pr[2] ELSE pr[1]

\* C9: validate_stability returns False exactly when a scored pair, not
\* matched to each other, scores strictly above what each of the two gave
\* the current partner.
C9_ExactVerdict ==
    pc = "validated" =>
        (is_stable = "False" <=>
            \E i \in 1..Len(scores) :
                LET a == scores[i].candidate_a_id
                    b == scores[i].candidate_b_id
                IN  /\ IsMatched(a)
                    /\ IsMatched(b)
                    /\ PartnerOf(a) # b
                    /\ scores[i].total_score > PartnerScore(scores, a, PartnerOf(a))
                    /\ scores[i].total_score > PartnerScore(scores, b, PartnerOf(b)))

(***************************************************************************)
(* SpecFilter: one invocation of filter_candidates.                        *)
(***************************************************************************)
\* The longest pool handed to filter_candidates.
MaxPool == 3

Requesters ==
    {Profile("r", g, 30, loc, FALSE, "hasidic", "strict", <<"hebrew">>) :
        g \in {"M", "F"}, loc \in Locations}

OtherProfiles ==
    {Profile("c1", "F", 25, "haifa", FALSE, "hasidic", "strict", <<"hebrew">>),
     Profile("c2", "F", 45, "eilat", TRUE, "sephardic", "moderate", <<"hebrew", "english">>),
     Profile("c3", "M", 25, "eilat", FALSE, "hasidic", "strict", <<"hebrew", "english">>)}

ConstraintSets ==
    {HardConstraints(lo, hi, km, smoking, comm, rel, lang) :
        lo \in {None, Some(30)}, hi \in {None, Some(30)},
        km \in {None, Some(0), Some(100)},
        smoking \in {None, Some(FALSE)},
        comm \in {None, Some(<<>>), Some(<<"hasidic">>)},
        rel \in {None, Some(<<"strict">>)},
        lang \in {None, Some(<<"english">>)}}

\* The pools for one requester: up to MaxPool distinct profiles, the
\* requester's own profile among the profiles to draw from.
Pools(requester) ==
    {l \in NoRepeatLists(OtherProfiles \cup {requester}) : Len(l) <= MaxPool}

FilterInputs(requesters) ==
    UNION {{[candidates |-> pool, requester |-> requester,
             preferences |-> Preferences(requester.id, must_have, None, ""),
             twin |-> Preferences(requester.id, must_have, None, "")] :
               pool \in Pools(requester), must_have \in ConstraintSets} :
           requester \in requesters}

CallFilter == f_pc = "idle" /\ \E inp \in FilterInputs(Requesters) : filter_candidates(inp)

NextFilter ==
    \/ CallFilter
    \/ FilterStep

SpecFilter == Init /\ [][NextFilter]_vars

\* C10: what filter_candidates returns holds neither the requester's id nor a
\* candidate of the requester's gender, and every returned candidate passes
\* is_valid_match, whatever the geocoder would answer now.
C10_FilterExcludes ==
    \A i \in 1..Len(valid_candidates) :
        LET candidate == valid_candidates[i][1]
        IN  /\ candidate.id # f_requester.id
            /\ candidate.gender # f_requester.gender
            /\ \A geo \in [Locations -> GeocodeOutcomes] :
                  is_valid_match(location_cache, candidate, f_requester,
                                 f_preferences, geo).valid

\* A pool that holds the requester and a candidate of the requester's gender
\* who passes every check, and a result that holds another candidate, kept
\* under a distance constraint after a failed lookup.
C10_Witness ==
    /\ f_pc = "returned"
    /\ Len(valid_candidates) = 1
    /\ TruthyInt(f_preferences.must_have.max_distance_km)
    /\ \E i, j \in 1..Len(f_candidates) :
          /\ f_candidates[i].id = f_requester.id
          /\ f_candidates[j].id # f_requester.id
          /\ f_candidates[j].gender = f_requester.gender
          /\ \A geo \in [Locations -> GeocodeOutcomes] :
                is_valid_match(location_cache, f_candidates[j], f_requester,
                               f_preferences, geo).valid

(***************************************************************************)
(* SpecGate: one invocation of filter_candidates on a short pool, next to  *)
(* the same invocation with other soft preferences.                        *)
(***************************************************************************)
\* The longest pool in SpecGate.
MaxGatePool == 2

GateRequesters == {r \in Requesters : r.gender = "M" /\ r.location = "eilat"}

\* nice_to_have and free_text of the second Preferences object.
SoftVariants ==
    {<<NiceToHave(None, None, Some("eilat"), None, None), "">>,
     <<NiceToHave(None, None, Some("haifa"), None, Some(<<"hiking">>)), "quiet and studious">>}

GateInputs(requesters) ==
    UNION {{[candidates |-> pool, requester |-> requester,
             preferences |-> Preferences(requester.id, must_have, None, ""),
             twin |-> Preferences(requester.id, must_have, soft[1], soft[2])] :
               pool \in {l \in Pools(requester) : Len(l) <= MaxGatePool},
               must_have \in ConstraintSets, soft \in SoftVariants} :
           requester \in requesters}

CallGate == f_pc = "idle" /\ \E inp \in GateInputs(GateRequesters) : filter_candidates(inp)

NextGate ==
    \/ CallGate
    \/ FilterStep

SpecGate == Init /\ [][NextGate]_vars

\* The check the reason has to name: the first one that fails, in the order
\* age, distance, smoking, community, religiosity, language.
FirstFailing(v) ==
    IF ~v.age THEN "age"
    ELSE IF ~v.distance THEN "distance"
    ELSE IF ~v.smoking THEN "smoking"
    ELSE IF ~v.community THEN "community"
    ELSE IF ~v.religiosity THEN "religiosity"
    ELSE IF ~v.language THEN "language"
    ELSE "passes"

\* C11: is_valid_match returns True exactly when all six checks pass, and
\* otherwise its reason names the first failing check in the order age,
\* distance, smoking, community, religiosity, language.
C11_FirstFailingCheck ==
    f_verdict # None =>
        LET v == f_verdict[1]
        IN  /\ v.valid <=> (v.age /\ v.distance /\ v.smoking /\ v.community
                             /\ v.religiosity /\ v.language)
            /\ v.reason = FirstFailing(v)

\* A candidate who fails the age check and the community check, and is
\* reported as an age failure.
C11_Witness ==
    /\ f_verdict # None
    /\ ~f_verdict[1].age
    /\ ~f_verdict[1].community
    /\ ~f_verdict[1].valid
    /\ f_verdict[1].reason = "age"

\* C12: an unset constraint never rejects, and a candidate who passes is
\* within every age bound that is set and within max_distance_km when it is
\* set, 0 included.
C12_SetConstraintsEnforced ==
    f_verdict # None =>
        LET v == f_verdict[1]
            c == f_preferences.must_have
        IN  /\ (c.min_age = None /\ c.max_age = None) => v.reason # "age"
            /\ c.max_distance_km = None => v.reason # "distance"
            /\ c.smoking = None => v.reason # "smoking"
            /\ c.required_communities = None => v.reason # "community"
            /\ c.required_religiosity = None => v.reason # "religiosity"
            /\ c.required_languages = None => v.reason # "language"
            /\ v.valid =>
                  /\ c.min_age # None => v.candidate.age >= c.min_age[1]
                  /\ c.max_age # None => v.candidate.age <= c.max_age[1]
                  /\ c.max_distance_km # None => v.km <= c.max_distance_km[1]

\* C13: with the same hard constraints, is_valid_match gives the same verdict
\* and filter_candidates the same result whatever nice_to_have and free_text
\* are.
C13_SoftPreferencesIgnored ==
    (/\ t_preferences.must_have = f_preferences.must_have
     /\ t_preferences.candidate_id = f_preferences.candidate_id)
        => /\ t_verdict = f_verdict
           /\ t_valid_candidates = valid_candidates

\* A finished run in which nice_to_have and free_text both differ, one
\* candidate was kept and the last one checked was turned down.
C13_Witness ==
    /\ f_pc = "returned"
    /\ t_preferences.must_have = f_preferences.must_have
    /\ t_preferences.nice_to_have # f_preferences.nice_to_have
    /\ t_preferences.free_text # f_preferences.free_text
    /\ Len(valid_candidates) = 1
    /\ t_valid_candidates = valid_candidates
    /\ f_verdict # None
    /\ ~f_verdict[1].valid

(***************************************************************************)
(* SpecScorer: update_weights calls on one MatchingScorer, and             *)
(* calculate_match_score under the weights they leave.                     *)
(***************************************************************************)
\* How many times update_weights is called.
MaxUpdates == 2

\* The most keys of a partial weight map.
MaxWeightKeys == 2

WeightValues == {0 - 500, 5, 1000, 1500}

PartialMaps ==
    UNION {[ks -> WeightValues] :
               ks \in {s \in SUBSET WeightNames : Cardinality(s) <= MaxWeightKeys}}

FullMaps ==
    {default_weights,
     [n \in WeightNames |-> 200],
     [semantic_similarity |-> 545, religious_compatibility |-> 200,
      age_compatibility |-> 100, location_compatibility |-> 100, other_factors |-> 50],
     [n \in WeightNames |-> 250]}

WeightMaps == PartialMaps \cup FullMaps

Educated(profile, education) == [education |-> education] @@ profile

\* Two candidates alike in everything, and a third unlike them in everything.
ScorerPairs ==
    LET a == Educated(Profile("a", "M", 30, "haifa", FALSE, "hasidic", "strict",
                              <<"hebrew">>), "yeshiva")
        b == Educated(Profile("b", "F", 30, "haifa", FALSE, "hasidic", "strict",
                              <<"hebrew">>), "yeshiva")
        c == Educated(Profile("c", "F", 50, "haifa", TRUE, "modern_orthodox", "flexible",
                              <<"english">>), "university")
    IN  {<<a, b>>, <<a, c>>}

\* The cosine similarities of two texts that are tried.
Cosines == {0 - ScoreUnit \div 2, 0, ScoreUnit}

CallUpdateWeights ==
    /\ updates < MaxUpdates
    /\ \E new_weights \in WeightMaps : update_weights(new_weights)

CallScorePair ==
    \E pair \in ScorerPairs, cosine \in Cosines, geo \in [Locations -> GeocodeOutcomes] :
        score_pair(pair[1], pair[2], cosine, geo)

NextScorer ==
    \/ CallUpdateWeights
    \/ CallScorePair

SpecScorer == Init /\ [][NextScorer]_vars

\* C14: calculate_match_score returns a MatchScore whose five components and
\* total are within [0,1], under the default weights and under the weights
\* left by any accepted update_weights call.
C14_ScoresWithinUnit ==
    match_score # None =>
        LET s == match_score[1]
        IN  /\ s.outcome = "MatchScore"
            /\ 0 <= s.total_score /\ s.total_score <= ScoreUnit * WeightUnit
            /\ \A c \in {s.semantic_similarity, s.religious_compatibility,
                          s.age_compatibility, s.location_compatibility, s.other_factors} :
                  0 <= c /\ c <= ScoreUnit

\* C15: the weights of the five components sum to 1 within 0.01 after every
\* update_weights call, and a call that ends in the error leaves the weights
\* as they were.
C15_WeightsSumToOne ==
    /\ Abs(SumOver(weights, WeightNames) - WeightUnit) <= WeightUnit \div 100
    /\ weights_outcome = "ValueError" => weights = weights_before

(***************************************************************************)
(* SpecScore: one call of one scoring function on a fresh MatchingScorer.  *)
(***************************************************************************)
Fresh == match_score = None /\ religious_call = None /\ age_call = None

Believer(community, religiosity_level, age) ==
    Educated(Profile("p", "M", age, "haifa", FALSE, community, religiosity_level,
                     <<"hebrew">>), "yeshiva")

ScoreProfilesA ==
    {Educated(Profile("a", "M", 25, location, FALSE, community, religiosity_level,
                      <<"hebrew", "english">>), "yeshiva") :
        location \in Locations, community \in {"hasidic", "sephardic"},
        religiosity_level \in {"strict", "moderate"}}

ScoreProfilesB ==
    {Educated(Profile("b", "F", age, location, smoking, community, religiosity_level,
                      languages), education) :
        age \in {25, 28, 40}, location \in Locations, smoking \in BOOLEAN,
        community \in {"hasidic", "sephardic"}, religiosity_level \in {"strict", "moderate"},
        languages \in {<<"hebrew">>, <<"hebrew", "english">>, <<"yiddish">>},
        education \in {"yeshiva", "seminary"}}

CallMatchScore ==
    /\ Fresh
    /\ \E a \in ScoreProfilesA, b \in ScoreProfilesB, cosine \in Cosines,
          geo \in [Locations -> GeocodeOutcomes] : score_pair(a, b, cosine, geo)

CallReligious ==
    /\ Fresh
    /\ \E ca \in Communities, cb \in Communities,
          ra \in ReligiosityLevels, rb \in ReligiosityLevels :
            religious_pair(Believer(ca, ra, 30), Believer(cb, rb, 30))

CallAge ==
    /\ Fresh
    /\ \E age_a \in 18..120, age_b \in 18..120 :
            age_pair(Believer("hasidic", "strict", age_a), Believer("hasidic", "strict", age_b))

NextScore ==
    \/ CallMatchScore
    \/ CallReligious
    \/ CallAge

SpecScore == Init /\ [][NextScore]_vars

\* C16: calculate_religious_compatibility and calculate_age_compatibility give
\* the same score with the two candidates swapped, and every pair of
\* communities and of religiosity levels has its own matrix entry.
C16_Symmetric ==
    /\ religious_call # None =>
          LET r == religious_call[1]
          IN  /\ r.score = calculate_religious_compatibility(r.candidate_b, r.candidate_a)
              /\ r.candidate_a.community \in DOMAIN community_compatibility
              /\ r.candidate_b.community
                     \in DOMAIN community_compatibility[r.candidate_a.community]
              /\ r.candidate_a.religiosity_level \in DOMAIN religiosity_compatibility
              /\ r.candidate_b.religiosity_level
                     \in DOMAIN religiosity_compatibility[r.candidate_a.religiosity_level]
    /\ age_call # None =>
          age_call[1].score =
              calculate_age_compatibility(age_call[1].candidate_b, age_call[1].candidate_a)

\* A call on a lithuanian very strict candidate and a hasidic flexible one.
C16_Witness ==
    /\ religious_call # None
    /\ religious_call[1].candidate_a.community = "lithuanian"
    /\ religious_call[1].candidate_b.community = "hasidic"
    /\ religious_call[1].candidate_a.religiosity_level = "very_strict"
    /\ religious_call[1].candidate_b.religiosity_level = "flexible"
    /\ religious_call[1].score = (Tenths(6) * 6 + Tenths(2) * 4) \div 10

\* Same community, religiosity level and location, ages three years apart.
FloorCase(s) ==
    /\ s.candidate_a.community = s.candidate_b.community
    /\ s.candidate_a.religiosity_level = s.candidate_b.religiosity_level
    /\ s.candidate_a.location = s.candidate_b.location
    /\ Abs(s.candidate_a.age - s.candidate_b.age) = 3

\* C17: with the default weights, in the floor case the total is
\* 0.20*1.0 + 0.10*0.8 + 0.10*1.0 + 0.05*other_factors when the semantic
\* similarity is 0, and at least 0.38 whatever the semantic similarity is.
C17_NonSemanticFloor ==
    (match_score # None /\ weights = default_weights /\ FloorCase(match_score[1])) =>
        LET s == match_score[1]
        IN  /\ s.outcome = "MatchScore"
            /\ s.semantic_similarity = 0 =>
                  s.total_score = 200 * ScoreUnit + 100 * Tenths(8) + 100 * ScoreUnit
                                  + 50 * s.other_factors
            /\ s.total_score * 100 >= 38 * ScoreUnit * WeightUnit

\* A floor case with semantic similarity 0, a geocoder that found nothing and
\* other factors below 1.
C17_Witness ==
    /\ match_score # None
    /\ weights = default_weights
    /\ FloorCase(match_score[1])
    /\ match_score[1].semantic_similarity = 0
    /\ match_score[1].other_factors < ScoreUnit
    /\ \E l \in DOMAIN scorer_cache : scorer_cache[l] = default_coords
    /\ match_score[1].total_score
           = 380 * ScoreUnit + 50 * match_score[1].other_factors

(***************************************************************************)
(* SpecRanker: train and predict_score calls on one MatchingRanker, which  *)
(* starts with or without a model file.                                    *)
(***************************************************************************)
\* The longest feedback list handed to train.
MaxFeedback == 3

ScoreNames ==
    <<"total_score", "semantic_similarity", "religious_compatibility",
      "age_compatibility", "location_compatibility", "other_factors">>

Feedback(candidate_a_id, candidate_b_id, status) ==
    [candidate_a_id |-> candidate_a_id, candidate_b_id |-> candidate_b_id, status |-> status]

\* The feedback on record: one status for each pair of a requester and a
\* candidate.
FeedbackEntries ==
    {Feedback("a", "x", "matched"), Feedback("a", "y", "rejected"),
     Feedback("b", "x", "contact_made"), Feedback("b", "y", "no_response")}

FeedbackLists == UNION {[1..n -> FeedbackEntries] : n \in 0..MaxFeedback}

AllPairs == {"a", "b"} \X {"x", "y"}

\* Everybody is known and every pair is scored, or y has no profile, or b has
\* no preferences, or the pair (a, x) has no base scores.
TrainInputs(feedback_lists) ==
    {[feedback_data |-> feedback_data, candidates_data |-> known[1],
      preferences_data |-> known[2],
      base_scores_data |-> [pr \in known[3] |-> ScoreNames]] :
        feedback_data \in feedback_lists,
        known \in {<<{"a", "b", "x", "y"}, {"a", "b", "x", "y"}, AllPairs>>,
                   <<{"a", "b", "x"}, {"a", "b", "x", "y"}, AllPairs>>,
                   <<{"a", "b", "x", "y"}, {"a", "x", "y"}, AllPairs>>,
                   <<{"a", "b", "x", "y"}, {"a", "b", "x", "y"}, AllPairs \ {<<"a", "x">>}>>}}

\* base_scores: the map of the API, a map with the total only, a map without
\* the total, an empty map.
BaseScoreMaps ==
    {[total_score |-> 3, semantic_similarity |-> 4, religious_compatibility |-> 10,
      age_compatibility |-> 8, location_compatibility |-> 2, other_factors |-> 7],
     [total_score |-> 8],
     [semantic_similarity |-> 4, religious_compatibility |-> 10],
     <<>>}

\* What self.model.predict gives: it raises, or returns -2.0, 1.5, 5.0 or 7.0.
Predictions == {None, Some(0 - 2 * RawUnit), Some(3), Some(5 * RawUnit), Some(7 * RawUnit)}

\* The train calls made on one instance.
MaxTrainings == 1

CallTrain ==
    /\ trainings < MaxTrainings
    /\ \E inp \in TrainInputs(FeedbackLists), fit \in {"ok", "fit_raises", "evaluation_raises"} :
          train(inp, fit)

CallPredict ==
    \E base_scores \in BaseScoreMaps, extraction \in {"ok", "raises"},
       prediction \in Predictions : predict(base_scores, extraction, prediction)

NextRanker ==
    \/ CallTrain
    \/ CallPredict

InitWithRanker ==
    /\ InitMatching /\ InitFilter /\ InitScorer /\ InitCompat
    /\ (InitRanker \/ InitRankerLoaded)

SpecRanker == InitWithRanker /\ [][NextRanker]_vars

\* C18: on a ranker that is not trained, predict_score returns the base
\* total score the caller supplied, whatever the shape of base_scores, and
\* leaves model, feature_names and is_trained as they were.
C18_UntrainedReturnsBase ==
    (predicted # None /\ ~predicted[1].before.is_trained) =>
        /\ "total_score" \in DOMAIN predicted[1].base_scores
        /\ predicted[1].score = predicted[1].base_scores["total_score"]
        /\ ranker_state = predicted[1].before

\* The prediction or the feature extraction of the call failed.
PredictionFailed(c) ==
    c.extraction = "raises" \/ c.prediction = None \/ c.before.model # "fitted"

\* C19: on a trained ranker, predict_score returns the supplied base total
\* score when feature extraction or the prediction fails, and the raw
\* prediction divided by 5, clamped into [0,1], when they succeed.
C19_FallbackOrNormalized ==
    (predicted # None /\ predicted[1].before.is_trained) =>
        LET c == predicted[1]
        IN  /\ (PredictionFailed(c) /\ "total_score" \in DOMAIN c.base_scores)
                   => c.score = c.base_scores["total_score"]
            /\ ~PredictionFailed(c) =>
                  /\ 0 <= c.score /\ c.score <= RankUnit
                  /\ c.score * 5 * RawUnit =
                        IF c.prediction[1] < 0 THEN 0
                        ELSE IF c.prediction[1] > 5 * RawUnit THEN RankUnit * 5 * RawUnit
                        ELSE c.prediction[1] * RankUnit

\* A ranker loaded from a model file whose later fit raised is still trained;
\* its unfitted model fails the prediction and the base total comes back.
C19_Witness ==
    /\ predicted # None
    /\ predicted[1].before.is_trained
    /\ predicted[1].before.model = "unfitted"
    /\ predicted[1].extraction = "ok"
    /\ predicted[1].prediction # None
    /\ "total_score" \in DOMAIN predicted[1].base_scores
    /\ predicted[1].score = 8

\* A feedback example whose two candidates have profile and preferences and
\* whose pair has base scores.
Usable(inp, f) ==
    /\ {f.candidate_a_id, f.candidate_b_id} \subseteq inp.candidates_data
    /\ {f.candidate_a_id, f.candidate_b_id} \subseteq inp.preferences_data
    /\ <<f.candidate_a_id, f.candidate_b_id>> \in DOMAIN inp.base_scores_data

UsableCount(inp, requester_id) ==
    Cardinality({i \in 1..Len(inp.feedback_data) :
                    /\ inp.feedback_data[i].candidate_a_id = requester_id
                    /\ Usable(inp, inp.feedback_data[i])})

UsedRequesters(inp) ==
    {r \in {inp.feedback_data[i].candidate_a_id : i \in 1..Len(inp.feedback_data)} :
        UsableCount(inp, r) >= 2}

\* C20: prepare_training_data uses the requesters with at least two usable
\* examples and nobody else, its group sizes sum to the number of rows and of
\* labels, and it raises the error exactly when no requester is used.
C20_GroupsOfTwoOrMore ==
    training_data # None =>
        LET d == training_data[1]
            used == UsedRequesters(d.arguments)
        IN  /\ d.outcome = "ValueError" <=> used = {}
            /\ d.outcome = "returned" =>
                  /\ Len(d.group_sizes) = Cardinality(used)
                  /\ \A g \in 1..Len(d.group_sizes) : d.group_sizes[g] >= 2
                  /\ SumOver(d.group_sizes, DOMAIN d.group_sizes) = Len(d.rows)
                  /\ Len(d.labels) = Len(d.rows)
                  /\ Len(d.rows) = SumOver([r \in used |-> UsableCount(d.arguments, r)], used)
                  /\ \A i \in 1..Len(d.rows) : d.rows[i].requester \in used

\* One requester is used with two examples, the other has one usable example
\* and is left out.
C20_Witness ==
    /\ training_data # None
    /\ training_data[1].outcome = "returned"
    /\ training_data[1].group_sizes = <<2>>
    /\ \E r \in {"a", "b"} : UsableCount(training_data[1].arguments, r) = 1

(***************************************************************************)
(* The loop of gale_shapley and its cap                                    *)
(***************************************************************************)
\* The man has proposed to every woman on his list.
ListUsedUp(m) == men_next_proposal[m] >= Len(men_preferences[m])

\* C22: when gale_shapley returns, every man without a partner has proposed
\* to every woman on his list: the cap of |men| x |women| iterations never
\* ends the loop while a free man has a woman left to propose to.
C22_CapIsDefensive ==
    (pc = "returned" /\ DOMAIN men_preferences # {}) =>
        \A m \in DOMAIN men_preferences : ~DictHas(men_partner, m) => ListUsedUp(m)

(***************************************************************************)
(* validate_stability and the unmatched                                    *)
(***************************************************************************)
\* x has no partner, and y has none or scores the partner below s.
PrefersToCurrent(x, y, s) ==
    /\ ~IsMatched(x)
    /\ (~IsMatched(y) \/ s > PartnerScore(scores, y, PartnerOf(y)))

\* C23: validate_stability returns False when a scored pair has one end
\* unmatched and the other end unmatched or matched to a partner it scores
\* strictly below the pair's score.
C23_UnmatchedBlocking ==
    pc = "validated" =>
        ((\E i \in 1..Len(scores) :
            LET a == scores[i].candidate_a_id
                b == scores[i].candidate_b_id
            IN  \/ PrefersToCurrent(a, b, scores[i].total_score)
                \/ PrefersToCurrent(b, a, scores[i].total_score))
         => is_stable = "False")

(***************************************************************************)
(* SpecOrder: two invocations of find_stable_matches on two men and two    *)
(* women, with equal scores, the score list and the candidate map in       *)
(* either order.                                                           *)
(***************************************************************************)
\* The invocations compared with each other.
MaxOrderRuns == 2

OrderPool == <<Candidate("m1", "M"), Candidate("m2", "M"),
               Candidate("w1", "F"), Candidate("w2", "F")>>

\* The scores of the pairs of the table, in both directions, without those
\* of the candidates who scored nobody.
OrderScores(pool, table, silent) ==
    SelectSeq(SymmetricScores(pool, table), LAMBDA x : x.candidate_a_id \notin silent)

\* Every scored pair carries the same score; w2 has scored her men or has
\* scored nobody; the scores and the candidates come in the order of the pool
\* or in the opposite order.
OrderInputs(pool) ==
    {[scores |-> IF rev THEN Reverse(OrderScores(pool, table, silent))
                 ELSE OrderScores(pool, table, silent),
      candidates |-> IF back THEN Reverse(pool) ELSE pool,
      min_score |-> 1] :
        table \in [Range(PairSeq(pool)) -> {0, MaxScore}], silent \in {{}, {"w2"}},
        rev \in BOOLEAN, back \in BOOLEAN}

CallOrder == MayCall(MaxOrderRuns) /\ \E inp \in OrderInputs(OrderPool) : find_stable_matches(inp)

NextOrder ==
    \/ CallOrder
    \/ GaleShapleyStep

SpecOrder == Init /\ [][NextOrder]_vars

\* The two invocations were given the same scores and the same candidates,
\* possibly in another order.
SameSets(call_a, call_b) ==
    /\ Range(call_a.scores) = Range(call_b.scores)
    /\ Len(call_a.scores) = Len(call_b.scores)
    /\ Range(call_a.candidates) = Range(call_b.candidates)
    /\ call_a.min_score = call_b.min_score

ListsOf(call) == build_preference_lists(filter_scores(call.scores, call.min_score), call.candidates)

\* C24: the preference lists and the matching depend on the set of scores
\* and of candidates only: an invocation on a permutation of the score list
\* or of the candidate map builds the same lists and returns the same
\* matching as the first one.
C24_OrderIndependent ==
    (pc = "returned" /\ runs >= 2 /\ SameSets(ThisCall, first_call)) =>
        /\ ListsOf(ThisCall) = ListsOf(first_call)
        /\ stable_matches = first_result

(***************************************************************************)
(* SpecLists: build_preference_lists on two men and two women, with scores *)
(* that repeat a pair, name a candidate of the owner's gender or name an   *)
(* id that is not in the candidate map.                                    *)
(***************************************************************************)
\* The longest score list handed to build_preference_lists.
MaxListScores == 3

\* build_preference_lists called on its own: lines 18-76.  It reads its
\* arguments and writes no field of the instance.
build(inp) ==
    /\ scores' = inp.scores
    /\ candidates' = inp.candidates
    /\ men_preferences' = build_preference_lists(inp.scores, inp.candidates).men_preferences
    /\ women_preferences' = build_preference_lists(inp.scores, inp.candidates).women_preferences
    /\ runs' = runs + 1
    /\ UNCHANGED <<min_score, pc, men_partner, women_partner, men_next_proposal, free_men,
                   iteration, max_iterations, outVars, selfVars, proposal_log, first_call, first_result,
                   first_capped, outsideMatching>>

ListEntries ==
    {MatchScore(pr[1], pr[2], s) :
        pr \in {<<"m1", "w1">>, <<"m1", "w2">>, <<"m1", "m2">>, <<"m1", "x9">>,
                <<"w1", "m1">>, <<"w1", "m2">>, <<"w1", "w2">>},
        s \in {1, MaxScore}}

ListInputs(entries) ==
    {[scores |-> sc, candidates |-> OrderPool] :
        sc \in UNION {[1..n -> entries] : n \in 0..MaxListScores}}

CallBuild == MayCall(1) /\ \E inp \in ListInputs(ListEntries) : build(inp)

NextLists == CallBuild

SpecLists == Init /\ [][NextLists]_vars

GenderOf(id) == (CHOOSE c \in Range(candidates) : c.id = id).gender

\* The highest score the owner gave the target.
BestScore(owner, target) ==
    LET given == {scores[i].total_score : i \in {j \in 1..Len(scores) :
                     scores[j].candidate_a_id = owner /\ scores[j].candidate_b_id = target}}
    IN  CHOOSE s \in given : \A u \in given : u <= s

\* The list holds candidates of the other gender only, each once, each scored
\* by the owner, in the order of non-increasing best score.
WellFormedList(owner, list) ==
    /\ \A i \in 1..Len(list) :
          /\ \E c \in Range(candidates) : c.id = list[i] /\ c.gender # GenderOf(owner)
          /\ HasScore(scores, owner, list[i])
    /\ \A i, j \in 1..Len(list) : list[i] = list[j] => i = j
    /\ \A i, j \in 1..Len(list) : i < j => BestScore(owner, list[i]) >= BestScore(owner, list[j])

\* C25: every list build_preference_lists returns holds only candidates of
\* the other gender that are in the candidate map, holds no id twice, and is
\* ordered by non-increasing score of its owner for the listed id, the
\* highest score counting for a pair scored more than once; every candidate
\* has a list on exactly one side.
C25_ListsWellFormed ==
    runs >= 1 =>
        /\ DOMAIN men_preferences \cup DOMAIN women_preferences = {c.id : c \in Range(candidates)}
        /\ DOMAIN men_preferences \cap DOMAIN women_preferences = {}
        /\ \A man_id \in DOMAIN men_preferences : WellFormedList(man_id, men_preferences[man_id])
        /\ \A woman_id \in DOMAIN women_preferences :
              WellFormedList(woman_id, women_preferences[woman_id])

\* m1 scored w1 twice, low first, and w2 in between: w1 goes first on his
\* list by her higher score, and is listed once.
C25_Witness ==
    /\ runs >= 1
    /\ scores = <<MatchScore("m1", "w1", 1), MatchScore("m1", "w2", 1),
                  MatchScore("m1", "w1", MaxScore)>>
    /\ men_preferences["m1"] = <<"w1", "w2">>

(***************************************************************************)
(* SpecThreshold: one invocation of find_stable_matches on two men and two *)
(* women whose scores for each other differ, with a low and a high         *)
(* min_score.                                                              *)
(***************************************************************************)
ThresholdInputs(pool) ==
    {[scores |-> RankedScores(pool, lists), candidates |-> pool, min_score |-> ms] :
        lists \in TargetLists(pool), ms \in MinScores} \cup OneSidedInputs

CallThreshold == MayCall(1) /\ \E inp \in ThresholdInputs(OrderPool) : find_stable_matches(inp)

NextThreshold ==
    \/ CallThreshold
    \/ GaleShapleyStep

SpecThreshold == Init /\ [][NextThreshold]_vars

\* a gave b a score that reaches min_score.
ScoredAtLeast(a, b, threshold) ==
    \E j \in 1..Len(scores) :
        /\ scores[j].candidate_a_id = a
        /\ scores[j].candidate_b_id = b
        /\ scores[j].total_score >= threshold

\* C26: every tuple find_stable_matches returns carries a score of at least
\* min_score and is backed by a score of at least min_score in each
\* direction; with no score reaching min_score, or with no candidate on one
\* side, the result is the empty list.
C26_Threshold ==
    Returned =>
        /\ \A i \in 1..Len(stable_matches) :
              /\ stable_matches[i][3] >= min_score
              /\ ScoredAtLeast(stable_matches[i][1], stable_matches[i][2], min_score)
              /\ ScoredAtLeast(stable_matches[i][2], stable_matches[i][1], min_score)
        /\ ((\A j \in 1..Len(scores) : scores[j].total_score < min_score)
              \/ Men = {} \/ Women = {})
           => stable_matches = <<>>

\* A pair is returned while another pair, scored at min_score or more by the
\* man and below it by the woman, is left unmatched with both ends free.
C26_Witness ==
    /\ pc = "returned"
    /\ stable_matches # <<>>
    /\ \E m \in Men, w \in Women :
          /\ ScoredAtLeast(m, w, min_score)
          /\ HasScore(scores, w, m)
          /\ ~ScoredAtLeast(w, m, min_score)
          /\ ~IsMatched(m)
          /\ ~IsMatched(w)

(***************************************************************************)
(* What a woman holds during gale_shapley                                  *)
(***************************************************************************)
\* No man has a partner and a place in the free queue at once.
MatchedOrQueued == \A m \in DOMAIN men_preferences : ~(DictHas(men_partner, m) /\ Contains(free_men, m))

\* One iteration of the loop: a woman with a partner keeps one, a change of
\* her partner is a step up on her own list, and a man loses his partner only
\* to such a change and goes back to the queue.
HoldImproves ==
    /\ \A w \in DOMAIN women_partner :
          /\ w \in DOMAIN women_partner'
          /\ women_partner'[w] # women_partner[w] =>
                /\ Contains(women_preferences[w], women_partner'[w])
                /\ Contains(women_preferences[w], women_partner[w])
                /\ IndexOf(women_preferences[w], women_partner'[w])
                      < IndexOf(women_preferences[w], women_partner[w])
    /\ \A m \in DOMAIN men_preferences :
          (DictHas(men_partner, m) /\ ~DictHas(men_partner', m)) =>
              /\ \E w \in DOMAIN women_partner :
                    women_partner[w] = m /\ women_partner'[w] # m
              /\ Contains(free_men', m)
    /\ MatchedOrQueued'

\* C27: during gale_shapley a woman who holds a proposal is never without a
\* partner again, her partner changes only to a man higher on her own list, a
\* man is displaced only by such a change and returns to the free queue, and
\* no man is matched and in the free queue at once.
C27_HoldsOnlyImprove == [][pc = "gale_shapley" => HoldImproves]_vars

\* A man was the first to be held by a woman, a man higher on her list holds
\* her now, and the first man is back in the free queue.
C27_Witness ==
    /\ pc = "gale_shapley"
    /\ \E w \in DOMAIN women_partner, k1, k2 \in 1..Len(proposal_log) :
          /\ k1 < k2
          /\ proposal_log[k1][2] = w
          /\ proposal_log[k2] = <<women_partner[w], w>>
          /\ Knows(women_preferences, w, proposal_log[k1][1])
          /\ \A j \in 1..(k1 - 1) :
                proposal_log[j][2] = w => ~Knows(women_preferences, w, proposal_log[j][1])
          /\ IndexOf(women_preferences[w], women_partner[w])
                < IndexOf(women_preferences[w], proposal_log[k1][1])
          /\ Contains(free_men, proposal_log[k1][1])
          /\ ~DictHas(men_partner, proposal_log[k1][1])

(***************************************************************************)
(* train and the fields of the ranker                                      *)
(***************************************************************************)
\* C28: when train raises, model, feature_names and is_trained are what they
\* were before the call, and is_trained becomes True only when train returns.
C28_TrainAllOrNothing ==
    (training_data # None /\ training_data[1].raised) =>
        ranker_state = training_data[1].before

(***************************************************************************)
(* The location cache of a RulesFilter                                     *)
(***************************************************************************)
\* The last is_valid_match call looked both locations up.
DistanceLookedUp ==
    /\ f_verdict # None
    /\ f_verdict[1].age
    /\ TruthyInt(f_preferences.must_have.max_distance_km)

\* Every location looked up so far has its coordinates or the fallback, and
\* the distance of the last call is the one between the cached coordinates.
LookupsAnswered ==
    /\ \A location \in DOMAIN location_cache :
          location_cache[location] \in {TruePosition(location), default_coords}
    /\ f_verdict # None => f_verdict[1].valid \in BOOLEAN
    /\ DistanceLookedUp =>
          /\ {f_verdict[1].candidate.location, f_requester.location} \subseteq DOMAIN location_cache
          /\ f_verdict[1].km = geodesic(location_cache[f_verdict[1].candidate.location],
                                        location_cache[f_requester.location])

\* C29: a lookup that fails or finds nothing gives the fallback coordinates,
\* is_valid_match returns its verdict all the same, and a location that was
\* looked up keeps its coordinates in every later lookup of the instance.
C29_LookupDegrades ==
    [][/\ \A location \in DOMAIN location_cache :
             /\ location \in DOMAIN location_cache'
             /\ location_cache'[location] = location_cache[location]
       /\ LookupsAnswered']_vars

\* The lookup of the requester's town failed in the first check; the second
\* check measures the distance to the candidate in haifa from the fallback
\* coordinates and lets her pass a limit of 100 km.
C29_Witness ==
    /\ f_index = 3
    /\ DistanceLookedUp
    /\ f_requester.location = "eilat"
    /\ f_verdict[1].candidate.location = "haifa"
    /\ location_cache = ("eilat" :> default_coords) @@ ("haifa" :> TruePosition("haifa"))
    /\ f_verdict[1].km = 90
    /\ f_verdict[1].valid
    /\ Len(valid_candidates) = 2

(***************************************************************************)
(* The steps of calculate_age_compatibility                                *)
(***************************************************************************)
\* The age gap of the last calculate_age_compatibility call.
AgeGap == Abs(age_call[1].candidate_a.age - age_call[1].candidate_b.age)

\* No pair of ages 18..120 that is at least as far apart as the last call's
\* scores higher than the last call did.
NoWiderGapScoresHigher ==
    \A age_a \in {age_call[1].candidate_a.age, age_call[1].candidate_b.age}, age_b \in 18..120 :
        Abs(age_a - age_b) >= AgeGap =>
            calculate_age_compatibility(Believer("hasidic", "strict", age_a),
                                        Believer("hasidic", "strict", age_b))
                <= age_call[1].score

\* C30: for ages 18..120 the age compatibility of a gap g is 1.0 for g <= 2,
\* 0.8 for g <= 5, 0.6 for g <= 8, 0.4 for g <= 12 and 0.2 above, it never
\* rises with the gap, and a gap of at most 5 scores at least 0.6.
C30_AgeStepFunction ==
    age_call # None =>
        /\ AgeGap \in 0..2 => age_call[1].score = ScoreUnit
        /\ AgeGap \in 3..5 => age_call[1].score * 10 = 8 * ScoreUnit
        /\ AgeGap \in 6..8 => age_call[1].score * 10 = 6 * ScoreUnit
        /\ AgeGap \in 9..12 => age_call[1].score * 10 = 4 * ScoreUnit
        /\ AgeGap >= 13 => age_call[1].score * 10 = 2 * ScoreUnit
        /\ AgeGap <= 5 => age_call[1].score * 10 >= 6 * ScoreUnit
        /\ NoWiderGapScoresHigher

\* A call on the ages 115 and 120, five years apart, scored 0.8.
C30_Witness ==
    /\ age_call # None
    /\ age_call[1].candidate_a.age = 115
    /\ age_call[1].candidate_b.age = 120
    /\ age_call[1].score * 10 = 8 * ScoreUnit

(***************************************************************************)
(* SpecBatch: one batch_score_candidates call on a MatchingScorer whose    *)
(* weights are the default ones or those left by one update_weights call.  *)
(***************************************************************************)
\* The longest candidate list handed to batch_score_candidates.
MaxBatch == 3

\* An update that leaves weights summing to 1.45, one with a negative weight
\* and one that is turned down.
BatchWeightMaps ==
    {default_weights,
     [semantic_similarity |-> 5],
     [semantic_similarity |-> 1000],
     [semantic_similarity |-> 1500, age_compatibility |-> 0 - 500]}

BatchCosines == {0, ScoreUnit}

BatchRequester ==
    Educated(Profile("a", "M", 25, "haifa", FALSE, "hasidic", "strict",
                     <<"hebrew", "english">>), "yeshiva")

BatchMember(id) ==
    IF id = "a" THEN BatchRequester
    ELSE IF id = "b"
    THEN Educated(Profile("b", "F", 25, "haifa", FALSE, "hasidic", "strict",
                          <<"hebrew">>), "seminary")
    ELSE IF id = "c"
    THEN Educated(Profile("c", "F", 28, "eilat", FALSE, "sephardic", "moderate",
                          <<"hebrew", "english">>), "seminary")
    ELSE Educated(Profile("d", "F", 40, "haifa", TRUE, "hasidic", "strict",
                          <<"yiddish">>), "yeshiva")

\* The candidate lists of up to MaxBatch candidates, the requester among them.
BatchPools(ids) ==
    UNION {{[i \in 1..n |-> BatchMember(order[i])] :
                order \in {o \in [1..n -> ids] : \A i, j \in 1..n : o[i] = o[j] => i = j}} :
           n \in 0..MaxBatch}

CallBatchWeights ==
    /\ updates < 1
    /\ \E new_weights \in BatchWeightMaps : update_weights(new_weights)

CallBatch ==
    /\ batch_scores = None
    /\ \E pool \in BatchPools({"a", "b", "c", "d"}), with_preferences \in SUBSET {"b", "c", "d"},
          geo \in [Locations -> GeocodeOutcomes] :
            \E cosines \in [1..Len(pool) -> BatchCosines] :
                batch(BatchRequester, pool, with_preferences, cosines, geo)

NextBatch ==
    \/ CallBatchWeights
    \/ CallBatch

SpecBatch == Init /\ [][NextBatch]_vars

\* The i-th candidate of the last batch is not the requester, has
\* preferences, and scoring it on its own gives a MatchScore.
Scorable(b, i) ==
    /\ b.candidates[i].id # b.requester.id
    /\ b.candidates[i].id \in b.with_preferences
    /\ calculate_match_score(b.weights, b.cache_before, b.requester, b.candidates[i],
                             b.cosines[i], b.geo).outcome = "MatchScore"

\* The places of the result that hold a score of the i-th candidate.
ScoresOf(b, i) ==
    {j \in 1..Len(b.scores) : b.scores[j].candidate_b.id = b.candidates[i].id}

\* C21: batch_score_candidates goes through the whole list whatever fails; the
\* result holds exactly one score, the one calculate_match_score gives the
\* pair, for every candidate that is not the requester, has preferences and
\* can be scored, none for the others, and is in non-increasing order of
\* total score.
C21_BatchPartialFailure ==
    batch_scores # None =>
        LET b == batch_scores[1]
        IN  /\ Len(b.visited) = Len(b.candidates)
            /\ \A i \in 1..Len(b.candidates) :
                  IF Scorable(b, i)
                  THEN /\ Cardinality(ScoresOf(b, i)) = 1
                       /\ \A j \in ScoresOf(b, i) :
                             /\ b.scores[j].candidate_a = b.requester
                             /\ b.scores[j].total_score
                                   = calculate_match_score(b.weights, b.cache_before, b.requester,
                                         b.candidates[i], b.cosines[i], b.geo).total_score
                  ELSE ScoresOf(b, i) = {}
            /\ \A j \in 1..Len(b.scores) :
                  \E i \in 1..Len(b.candidates) : j \in ScoresOf(b, i)
            /\ \A j \in 1..(Len(b.scores) - 1) :
                  b.scores[j].total_score >= b.scores[j + 1].total_score

\* The first of three candidates could not be scored; the other two have
\* their scores, the third candidate's, the higher one, first.
C21_Witness ==
    /\ batch_scores # None
    /\ batch_scores[1].visited = <<"ValidationError", "MatchScore", "MatchScore">>
    /\ Len(batch_scores[1].scores) = 2
    /\ batch_scores[1].scores[1].candidate_b.id = batch_scores[1].candidates[3].id
    /\ batch_scores[1].scores[1].total_score > batch_scores[1].scores[2].total_score

====
